---------------------------- MODULE Spec2Model ----------------------------
(***************************************************************************)
(* Friction tester: the COF computation pipeline of CofCalculation.cpp     *)
(* (trim and pairing, the averaging strategies, the COF assembly).         *)
(*                                                                         *)
(* Numbers.  The C code computes in float and double.  Here a float or a   *)
(* double is an exact rational <<n, d>> with d > 0 in lowest terms.  The   *)
(* inputs of the model are small integers and dyadic fractions, on which   *)
(* the float operations the code performs (sum, difference, halving, the   *)
(* product count * trimFraction) are exact; (long)(count * 0.85) and       *)
(* (long)(count * 0.95) equal floor(85 count / 100) and floor(95 count /   *)
(* 100) in IEEE double for every count up to 200000.  The rounding of the  *)
(* divisions sum/count and avgForce/normalForceLb is not modelled.         *)
(*                                                                         *)
(* Heap.  malloc may return NULL; each call of the model is told how many  *)
(* of its successive allocations succeed and logs the outcome of each.     *)
(***************************************************************************)
EXTENDS Integers, Sequences, FiniteSets, TLC

VARIABLES
    fwdSamples,     \* calculateCOF argument: forward pass samples (0-based in C, 1-based here)
    revSamples,     \* calculateCOF argument: reverse pass samples
    normalForceLb,  \* calculateCOF argument
    trimFraction,   \* calculateCOF argument
    avgFn,          \* calculateCOF argument: the averaging strategy
    result,         \* the CofResult calculateCOF returned
    serial,         \* lines written to Serial by the call
    pairs,          \* the <<forward index, reverse index>> (0-based) read for pair i
    avgArgs,        \* the arrays handed to the averaging strategy, in call order
    avgLeft,        \* the same arrays as the strategy left them when it returned
    mallocLog,      \* outcome of each malloc the call performed, in order
    freeLog,        \* for each free the call performed, in order: which malloc it releases
    samples,        \* direct strategy call: the array passed
    avgOut,         \* direct strategy call: what it returned and did
    pc,             \* "idle" before the call, "done" after it
    g_calibration,  \* counts per lb (Friction-Tester.ino)
    g_tareRaw,      \* raw reading at zero load
    lbs,            \* direct rawToPounds call: argument, value returned, lines printed
    prefs,          \* the calibration persisted in Preferences (namespace "cof")
    calOp,          \* the last tare or calibration operation and what it showed
    csv,            \* lines dumpPairedDataCSV wrote to Serial, in order
    rr,             \* runTest after its two passes: the passes and the RunResult
    mv,             \* a move on one core: the call, its loop position, what it did
    hm,             \* a homing: the call, its position, the clock and what it did
    btn,            \* a button: the pin, the clock, its Btn struct and the events reported
    rfid,           \* writeToRFID: its position, the clock and what it did
    motionCommandQueue,       \* FreeRTOS queue of MotionRequests, oldest first
    motionCompleteSemaphore,  \* binary semaphore: 1 when given, 0 when empty
    g_currentPhase,           \* volatile MotionPhase
    g_collectSamples,         \* volatile bool: signal to the sampling task
    g_fwdSamples,             \* float[MAX_SAMPLES_PER_PASS]
    g_revSamples,
    g_fwdSampleCount,         \* volatile long
    g_revSampleCount,
    runTestTask,              \* core 0: runTest, its position and the requestMotion results
    motionTaskState,          \* core 1: motionTask
    samplingTaskState,        \* core 0: forceSamplingTask
    passLog,                  \* per pass buffer: what happened since its pass began
    g_motionActive,           \* bool: set while the motion task executes a command
    motionLog                 \* the commands sent, received and completed so far

cofVars == <<fwdSamples, revSamples, normalForceLb, trimFraction, avgFn, result,
             serial, pairs, avgArgs, avgLeft, mallocLog, freeLog,
             samples, avgOut>>

convVars == <<g_calibration, g_tareRaw, lbs, prefs, calOp>>

ctlVars == <<hm, btn, rfid>>

dualVars == <<motionCommandQueue, motionCompleteSemaphore, g_currentPhase,
              g_collectSamples, g_fwdSamples, g_revSamples, g_fwdSampleCount,
              g_revSampleCount, runTestTask, motionTaskState, samplingTaskState,
              passLog, g_motionActive, motionLog>>

vars == <<cofVars, pc, convVars, csv, rr, mv, ctlVars, dualVars>>

----------------------------------------------------------------------------
(* Bounds of the model *)

\* Largest sample count of a pass in the long-buffer inputs.
MaxCount == 11
\* Largest sample count of a pass in the inputs that enumerate every value sequence.
MaxShort == 2
\* Largest length of the 0/1 arrays passed directly to an averaging strategy.
MaxBits == 10
\* Raw HX711 readings passed to rawToPounds lie in -MaxRaw .. MaxRaw.
MaxRaw == 4
\* Largest step count of a move.
MaxSteps == 4
\* Largest trimSteps argument of measureDuringMove.
MaxTrimSteps == 1
\* Sample capacity of a pass (2000 in the source: MAX_SAMPLES of
\* measureDuringMove, MAX_SAMPLES_PER_PASS of the dual-core buffers), scaled
\* so that a pass can fill it.
MAX_SAMPLES == 2
\* Most polls of a sensor that is not ready within one blocking read loop.
MaxDelays == 1
\* Loop iterations the model runs for a move of the dual-core runTest (the
\* step counts of the source, 25333 and 30400, scaled), and the most steps
\* one homing takes.
ScaledSteps == 1
MaxHomeSteps == 2
\* Most readings the sensor delivers during one pass.
MaxReads == 3
\* Largest sample count of a pass handed to the dual-core runTest's trimming
\* (2000 in the source: MAX_SAMPLES_PER_PASS).
MaxPassCount == 14

----------------------------------------------------------------------------
(* Exact arithmetic standing for float / double *)

Abs(x) == IF x < 0 THEN -x ELSE x

RECURSIVE GCD(_, _)
GCD(a, b) == IF b = 0 THEN a ELSE GCD(b, a % b)

\* The rational n/d in lowest terms with a positive denominator.  A zero
\* denominator gives what IEEE division gives: <<1, 0>> and <<-1, 0>> are
\* +Inf and -Inf, <<0, 0>> is NaN.
RNorm(n, d) ==
    IF d = 0 THEN <<IF n > 0 THEN 1 ELSE IF n < 0 THEN -1 ELSE 0, 0>>
    ELSE LET g == GCD(Abs(n), Abs(d))
             s == IF d < 0 THEN -1 ELSE 1
         IN  <<(s * n) \div g, (s * d) \div g>>

RInt(k) == <<k, 1>>
RAdd(a, b) == RNorm(a[1] * b[2] + b[1] * a[2], a[2] * b[2])
RSub(a, b) == RNorm(a[1] * b[2] - b[1] * a[2], a[2] * b[2])
RMul(a, b) == RNorm(a[1] * b[1], a[2] * b[2])
RDiv(a, b) == RNorm(a[1] * b[2], a[2] * b[1])
RAbs(a) == <<Abs(a[1]), a[2]>>
RLeq(a, b) == a[1] * b[2] <= b[1] * a[2]
RLess(a, b) == a[1] * b[2] < b[1] * a[2]

ToLong_round(a) == (2 * a[1] + a[2]) \div (2 * a[2])

\* The C conversion (long)x: truncation toward zero.
ToLong(a) == IF a[1] >= 0 THEN a[1] \div a[2] ELSE -((-a[1]) \div a[2])

\* Arduino's min() macro on longs.
min(a, b) == IF a < b THEN a ELSE b

\* for (i = lo; i < hi; i++) sum += s[i], with 0-based lo, hi.  The sum is
\* exact, so it is taken by halves to keep the evaluation shallow.
RECURSIVE SumRange(_, _, _)
SumRange(s, lo, hi) ==
    IF lo >= hi THEN RInt(0)
    ELSE IF hi = lo + 1 THEN s[lo + 1]
    ELSE LET mid == (lo + hi) \div 2
         IN  RAdd(SumRange(s, lo, mid), SumRange(s, mid, hi))

----------------------------------------------------------------------------
(* computeTrimParams *)

computeTrimParams_fwdTrimForBoth(fwdCount, revCount, trim) ==
    LET fwdTrim == ToLong(RMul(RInt(fwdCount), trim))
        revTrim == fwdTrim
        fwdTrimmed == fwdCount - 2 * fwdTrim
        revTrimmed == revCount - 2 * revTrim
    IN  IF fwdTrimmed <= 0 \/ revTrimmed <= 0
        THEN [ok |-> FALSE, fwdStart |-> 0, revStart |-> 0, pairedCount |-> 0]
        ELSE [ok |-> TRUE, fwdStart |-> fwdTrim, revStart |-> revTrim,
              pairedCount |-> min(fwdTrimmed, revTrimmed)]

computeTrimParams_noRevStart(fwdCount, revCount, trim) ==
    LET fwdTrim == ToLong(RMul(RInt(fwdCount), trim))
        revTrim == ToLong(RMul(RInt(revCount), trim))
        fwdTrimmed == fwdCount - 2 * fwdTrim
        revTrimmed == revCount - 2 * revTrim
    IN  IF fwdTrimmed <= 0 \/ revTrimmed <= 0
        THEN [ok |-> FALSE, fwdStart |-> 0, revStart |-> 0, pairedCount |-> 0]
        ELSE [ok |-> TRUE, fwdStart |-> fwdTrim, revStart |-> 0,
              pairedCount |-> min(fwdTrimmed, revTrimmed)]

computeTrimParams_strict(fwdCount, revCount, trim) ==
    LET fwdTrim == ToLong(RMul(RInt(fwdCount), trim))
        revTrim == ToLong(RMul(RInt(revCount), trim))
        fwdTrimmed == fwdCount - 2 * fwdTrim
        revTrimmed == revCount - 2 * revTrim
    IN  IF fwdTrimmed < 0 \/ revTrimmed < 0
        THEN [ok |-> FALSE, fwdStart |-> 0, revStart |-> 0, pairedCount |-> 0]
        ELSE [ok |-> TRUE, fwdStart |-> fwdTrim, revStart |-> revTrim,
              pairedCount |-> min(fwdTrimmed, revTrimmed)]

\* Returns the out-parameters with the boolean; on failure the caller's
\* zero-initialised fwdStart, revStart and pairCount are left as they are.
computeTrimParams(fwdCount, revCount, trim) ==
    LET fwdTrim == ToLong(RMul(RInt(fwdCount), trim))
        revTrim == ToLong(RMul(RInt(revCount), trim))
        fwdTrimmed == fwdCount - 2 * fwdTrim
        revTrimmed == revCount - 2 * revTrim
    IN  IF fwdTrimmed <= 0 \/ revTrimmed <= 0
        THEN [ok |-> FALSE, fwdStart |-> 0, revStart |-> 0, pairedCount |-> 0]
        ELSE [ok |-> TRUE, fwdStart |-> fwdTrim, revStart |-> revTrim,
              pairedCount |-> min(fwdTrimmed, revTrimmed)]

----------------------------------------------------------------------------
(* Averaging strategies.  Each returns the value with what the call did:   *)
(* the outcome of every malloc and the lines printed.  heapOk says whether *)
(* a malloc made by the strategy succeeds.                                 *)

\* qsort(sorted, count, sizeof(float), compareFloats): the values in
\* ascending order.  Position k (1-based) holds the value v of the array with
\* fewer than k values below it and at least k values not above it.
qsort(s) ==
    LET n == Len(s)
        below(v) == Cardinality({i \in 1..n : RLess(s[i], v)})
        notAbove(v) == Cardinality({i \in 1..n : RLeq(s[i], v)})
    IN  [k \in 1..n |->
            s[CHOOSE i \in 1..n : below(s[i]) < k /\ k <= notAbove(s[i])]]

\* avgPercentileBand with the qsort applied to the array it was passed
\* instead of a copy.
avgPercentileBand_sortInPlace(smp, count, heapOk) ==
    IF count < 10
    THEN [value |-> IF count > 0 THEN RDiv(SumRange(smp, 0, count), RInt(count))
                    ELSE RInt(0),
          mallocs |-> <<>>, frees |-> <<>>, after |-> smp, serial |-> <<>>]
    ELSE
      LET sorted == qsort(SubSeq(smp, 1, count)) \o <<>>
          i85 == (count * 85) \div 100
          idx95 == (count * 95) \div 100
          i85b == IF i85 >= idx95 THEN idx95 - 1 ELSE i85
          idx85 == IF i85b < 0 THEN 0 ELSE i85b
          rangeCount == idx95 - idx85
      IN  [value |-> IF rangeCount > 0
                     THEN RDiv(SumRange(sorted, idx85, idx95), RInt(rangeCount))
                     ELSE RInt(0),
           mallocs |-> <<>>, frees |-> <<>>,
           after |-> sorted \o SubSeq(smp, count + 1, Len(smp)), serial |-> <<>>]

\* What a strategy returns, here and below: the value, the outcome of each
\* malloc it made, for each free the number (from 1) of the malloc whose
\* buffer it releases, the array it was passed as the call leaves it, and
\* the lines printed.
avgPercentileBand(smp, count, heapOk) ==
    IF count < 10
    THEN [value |-> IF count > 0 THEN RDiv(SumRange(smp, 0, count), RInt(count))
                    ELSE RInt(0),
          mallocs |-> <<>>, frees |-> <<>>, after |-> smp, serial |-> <<>>]
    ELSE IF ~heapOk
    THEN [value |-> RInt(0), mallocs |-> <<FALSE>>, frees |-> <<>>, after |-> smp,
          serial |-> <<"ERROR: avgPercentileBand malloc failed">>]
    ELSE
      \* memcpy(sorted, samples, ...); qsort(sorted, ...); ...; free(sorted);
      LET sorted == qsort(SubSeq(smp, 1, count)) \o <<>>
          i85 == (count * 85) \div 100
          idx95 == (count * 95) \div 100
          i85b == IF i85 >= idx95 THEN idx95 - 1 ELSE i85
          idx85 == IF i85b < 0 THEN 0 ELSE i85b
          rangeCount == idx95 - idx85
      IN  [value |-> IF rangeCount > 0
                     THEN RDiv(SumRange(sorted, idx85, idx95), RInt(rangeCount))
                     ELSE RInt(0),
           mallocs |-> <<TRUE>>, frees |-> <<1>>, after |-> smp, serial |-> <<>>]

\* Pass 2: sum of (samples[i] - mean)^2
SqSum(s, mean, count) ==
    SumRange([i \in 1..count |->
                LET diff == RSub(s[i], mean) IN RMul(diff, diff)] \o <<>>, 0, count)

\* The band with its end points left out: samples[i] > lo && samples[i] < hi.
WithinOneStdDev_strict(v, mean, variance) ==
    LET diff == RSub(v, mean) IN RLess(RMul(diff, diff), variance)

\* samples[i] >= lo && samples[i] <= hi with lo = mean - stddev, hi = mean +
\* stddev and stddev = sqrt(variance) >= 0, decided without the square root:
\* |v - mean| <= stddev  iff  (v - mean)^2 <= variance.
WithinOneStdDev(v, mean, variance) ==
    LET diff == RSub(v, mean) IN RLeq(RMul(diff, diff), variance)

\* Pass 3: the values within one standard deviation of the mean, in order.
Filtered(s, mean, variance, count) ==
    LET Keep(v) == WithinOneStdDev(v, mean, variance)
    IN  SelectSeq(SubSeq(s, 1, count), Keep)

\* The strategy without its "if (count <= 0) return 0.0;" line.
avgWithinOneStdDev_noEmptyGuard(smp, count, heapOk) ==
    LET mean == RDiv(SumRange(smp, 0, count), RInt(count))
        variance == RDiv(SqSum(smp, mean, count), RInt(count))
        kept == Filtered(smp, mean, variance, count)
        filteredCount == Len(kept)
    IN  [value |-> IF filteredCount > 0
                   THEN RDiv(SumRange(kept, 0, filteredCount), RInt(filteredCount))
                   ELSE mean,
         mallocs |-> <<>>, frees |-> <<>>, after |-> smp, serial |-> <<>>]

avgWithinOneStdDev(smp, count, heapOk) ==
    IF count <= 0
    THEN [value |-> RInt(0), mallocs |-> <<>>, frees |-> <<>>, after |-> smp,
          serial |-> <<>>]
    ELSE
      LET mean == RDiv(SumRange(smp, 0, count), RInt(count))
          variance == RDiv(SqSum(smp, mean, count), RInt(count))
          kept == Filtered(smp, mean, variance, count)
          filteredCount == Len(kept)
      IN  [value |-> IF filteredCount > 0
                     THEN RDiv(SumRange(kept, 0, filteredCount), RInt(filteredCount))
                     ELSE mean,
           mallocs |-> <<>>, frees |-> <<>>, after |-> smp, serial |-> <<>>]

\* The AveragingFn function pointer: the two built-in strategies.
AveragingFns == {"avgPercentileBand", "avgWithinOneStdDev"}

CallAvgFn(fn, smp, count, heapOk) ==
    IF fn = "avgPercentileBand" THEN avgPercentileBand(smp, count, heapOk)
    ELSE avgWithinOneStdDev(smp, count, heapOk)

----------------------------------------------------------------------------
(* calculateCOF *)

\* CofResult result = { 0.0f, 0.0f, 0.0f, 0 };
ZeroResult ==
    [cof |-> RInt(0), avgForceLb |-> RInt(0), avgBias |-> RInt(0), pairedCount |-> 0]

\* fwdSamples[fwdStart + i]
PairFwdIndex(fwdStart, i) == fwdStart + i

\* The flip without its "- 1": revSamples[revStart + (pairCount - i)]
PairRevIndex_fromCount(revStart, pairCount, i) == revStart + (pairCount - i)

PairRevIndex_noFlip(revStart, pairCount, i) == revStart + i

\* revSamples[revStart + (pairCount - 1 - i)]  -- flip for position
PairRevIndex(revStart, pairCount, i) == revStart + (pairCount - 1 - i)

PairFriction_sum(fwd, rev) == RDiv(RAbs(RAdd(fwd, rev)), RInt(2))

\* pairedFriction[i] = fabsf(fwd - rev) / 2.0f
PairFriction(fwd, rev) == RDiv(RAbs(RSub(fwd, rev)), RInt(2))

\* (fwd + rev) / 2.0
PairBias(fwd, rev) == RDiv(RAdd(fwd, rev), RInt(2))

AssembleCof_noDivision(avgForce, normal) ==
    IF RLess(RInt(0), normal) THEN avgForce ELSE RInt(0)

\* result.cof = (normalForceLb > 0.0f) ? (float)(avgForce / normalForceLb) : 0.0f
AssembleCof(avgForce, normal) ==
    IF RLess(RInt(0), normal) THEN RDiv(avgForce, normal) ELSE RInt(0)

\* heapAvail: how many of the call's successive mallocs succeed (the
\* paired-friction buffer first, then the strategy's sort buffer).  The
\* frees are numbered by the malloc they release; fwdAfter and revAfter are
\* the two arrays as the call leaves them (it reads them only).
calculateCOF(fwd, fwdCount, rev, revCount, normal, trim, fn, heapAvail) ==
    LET tp == computeTrimParams(fwdCount, revCount, trim)
        fwdStart == tp.fwdStart
        revStart == tp.revStart
        pairCount == tp.pairedCount
    IN  IF ~tp.ok
        THEN [result |-> ZeroResult,
              serial |-> <<"ERROR: No valid pairs after trimming">>,
              pairs |-> <<>>, avgArgs |-> <<>>, avgLeft |-> <<>>,
              mallocs |-> <<>>, frees |-> <<>>,
              fwdAfter |-> fwd, revAfter |-> rev]
        ELSE IF heapAvail < 1
        THEN [result |-> ZeroResult,
              serial |-> <<"ERROR: calculateCOF malloc failed">>,
              pairs |-> <<>>, avgArgs |-> <<>>, avgLeft |-> <<>>,
              mallocs |-> <<FALSE>>, frees |-> <<>>,
              fwdAfter |-> fwd, revAfter |-> rev]
        ELSE
          LET idx == [i \in 1..pairCount |->
                        <<PairFwdIndex(fwdStart, i - 1),
                          PairRevIndex(revStart, pairCount, i - 1)>>] \o <<>>
              pairedFriction == [i \in 1..pairCount |->
                        PairFriction(fwd[idx[i][1] + 1], rev[idx[i][2] + 1])] \o <<>>
              bias == [i \in 1..pairCount |->
                        PairBias(fwd[idx[i][1] + 1], rev[idx[i][2] + 1])] \o <<>>
              biasSum == SumRange(bias, 0, pairCount)
              avg == CallAvgFn(fn, pairedFriction, pairCount, heapAvail >= 2)
              avgForce == avg.value
          IN  [result |-> [cof |-> AssembleCof(avgForce, normal),
                           avgForceLb |-> avgForce,
                           avgBias |-> RDiv(biasSum, RInt(pairCount)),
                           pairedCount |-> pairCount],
               serial |-> avg.serial,
               pairs |-> idx,
               avgArgs |-> <<pairedFriction>>,
               avgLeft |-> <<avg.after>>,
               mallocs |-> <<TRUE>> \o avg.mallocs,
               \* free(pairedFriction) after the strategy returned
               frees |-> [i \in 1..Len(avg.frees) |-> avg.frees[i] + 1] \o <<1>>,
               fwdAfter |-> fwd, revAfter |-> rev]

----------------------------------------------------------------------------
(* Inputs *)

\* Force readings (lb) of the enumerated buffers.
Forces == {RInt(0), RInt(3), RInt(5)}

\* Every sample sequence of at most MaxShort readings.
ShortBuffers == UNION {[1..n -> Forces] : n \in 0..MaxShort}

LongShapes == {"flat", "zig"}

\* A pass of n samples: a constant reading, or a reading that varies along the pass.
LongBuffer(shape, n) ==
    [i \in 1..n |-> IF shape = "flat" THEN RInt(3) ELSE RInt((3 * (i - 1)) % 7)]

PassPairs ==
    (ShortBuffers \X ShortBuffers)
    \cup {<<LongBuffer(a, n), LongBuffer(b, m)>> :
            a \in LongShapes, b \in LongShapes, n \in 0..MaxCount, m \in 0..MaxCount}

NormalForces == {RInt(-1), RInt(0), RInt(2)}

TrimFractions == {<<0, 1>>, <<1, 4>>, <<3, 8>>, <<1, 2>>, <<3, 4>>}

\* Arrays passed directly to an averaging strategy.
BitBuffers == UNION {[1..n -> {RInt(0), RInt(1)}] : n \in 0..MaxBits}

\* Four equal readings and one outlier; and an array with a value exactly one
\* standard deviation below the mean (mean 3/2, sigma 3/2).
OneOutlier == <<RInt(1), RInt(1), RInt(1), RInt(1), RInt(100)>>
OnTheEdge == <<RInt(0), RInt(1), RInt(1), RInt(4)>>

AvgInputs ==
    ShortBuffers \cup BitBuffers \cup {OneOutlier, OnTheEdge}
    \cup {LongBuffer("zig", n) : n \in 0..(4 * MaxCount)}
    \cup {[i \in 1..n |-> RInt(n - i)] : n \in 0..(4 * MaxCount)}
    \cup {[i \in 1..100 |-> RInt(i - 1)]}      \* the sequence 0, 1, ..., 99

NoOut == [fn |-> "none", value |-> RInt(0), mallocs |-> <<>>, frees |-> <<>>,
          serial |-> <<>>]

----------------------------------------------------------------------------
(* runTest after the two passes (Friction-Tester.ino): the dual-core        *)
(* variant averages the two global sample buffers, the single-core variant  *)
(* the two MeasureResults measureDuringMove returned.                       *)

\* fabs of each sample
AbsAll(s) == [i \in 1..Len(s) |-> RAbs(s[i])] \o <<>>

\* double calculatePercentileAverage(float* samples, long count): the value
\* returned, the mallocs performed and the lines printed.  With count == 0
\* the first return divides 0.0 by 0.0.
calculatePercentileAverage(smp, count, heapOk) ==
    IF count < 10
    THEN [value |-> RDiv(SumRange(AbsAll(SubSeq(smp, 1, count)), 0, count), RInt(count)),
          mallocs |-> <<>>, serial |-> <<>>]
    ELSE IF ~heapOk
    THEN [value |-> RInt(0), mallocs |-> <<FALSE>>,
          serial |-> <<"ERROR: Failed to allocate memory for sorting">>]
    ELSE
      LET absSamples == qsort(AbsAll(SubSeq(smp, 1, count))) \o <<>>
          i85 == (count * 85) \div 100
          idx95 == (count * 95) \div 100
          i85b == IF i85 >= idx95 THEN idx95 - 1 ELSE i85
          idx85 == IF i85b < 0 THEN 0 ELSE i85b
          rangeCount == idx95 - idx85
      IN  [value |-> IF rangeCount > 0
                     THEN RDiv(SumRange(absSamples, idx85, idx95), RInt(rangeCount))
                     ELSE RInt(0),
           mallocs |-> <<TRUE>>, serial |-> <<>>]

\* const float NORMAL_FORCE_LB = 3.59;
NORMAL_FORCE_LB == <<359, 100>>

\* lround(SEG_MEASURE_IN * STEPS_PER_INCH) and lround(SEG_TRIM_IN *
\* STEPS_PER_INCH) with STEPS_PER_INCH = 200 * 16 * 19 / 6
steps_measure == 30400
steps_trim == 2533

\* The window with "if (fwdEndIdx < fwdStartIdx)": an empty window is kept.
TrimWindow_keepsEmpty(count, trimSamplesPerSide) ==
    IF count - trimSamplesPerSide < trimSamplesPerSide
    THEN [startIdx |-> 0, endIdx |-> count]
    ELSE [startIdx |-> trimSamplesPerSide, endIdx |-> count - trimSamplesPerSide]

\* The sample window runTest averages: [trim, count - trim), or the whole
\* buffer when that window is empty.
TrimWindow(count, trimSamplesPerSide) ==
    IF count - trimSamplesPerSide <= trimSamplesPerSide
    THEN [startIdx |-> 0, endIdx |-> count]
    ELSE [startIdx |-> trimSamplesPerSide, endIdx |-> count - trimSamplesPerSide]

\* The dual-core runTest from "Calculate COF using collected samples" on.
\* The lines printed are the warnings and errors; the report lines that
\* print the counts and averages are left out.
runTestDualCore(fwdBuf, fwdSampleCount, revBuf, revSampleCount, heapOk) ==
    LET t == (fwdSampleCount * steps_trim) \div steps_measure
        trimSamplesPerSide == IF t < 0 THEN 0 ELSE t
        fw == TrimWindow(fwdSampleCount, trimSamplesPerSide)
        rw == TrimWindow(revSampleCount, trimSamplesPerSide)
        fwdTrimmedCount == fw.endIdx - fw.startIdx
        revTrimmedCount == rw.endIdx - rw.startIdx
        fwdCall == calculatePercentileAverage(
                       SubSeq(fwdBuf, fw.startIdx + 1, Len(fwdBuf)), fwdTrimmedCount, heapOk)
        revCall == calculatePercentileAverage(
                       SubSeq(revBuf, rw.startIdx + 1, Len(revBuf)), revTrimmedCount, heapOk)
        fwdAvg == fwdCall.value
        revAvg == revCall.value
        avgLbTwoPass ==
            IF fwdTrimmedCount > 0 /\ revTrimmedCount > 0
            THEN RDiv(RAdd(RAbs(fwdAvg), RAbs(revAvg)), RInt(2))
            ELSE IF fwdTrimmedCount > 0 THEN RAbs(fwdAvg)
            ELSE IF revTrimmedCount > 0 THEN RAbs(revAvg)
            ELSE RInt(0)
        warning ==
            IF fwdTrimmedCount > 0 /\ revTrimmedCount > 0 THEN <<>>
            ELSE IF fwdTrimmedCount > 0
            THEN <<"WARNING: No reverse samples - using forward only">>
            ELSE IF revTrimmedCount > 0
            THEN <<"WARNING: No forward samples - using reverse only">>
            ELSE <<"ERROR: No samples collected in either direction">>
    IN  [avgFrictionLb |-> avgLbTwoPass,
         cof |-> IF RLess(RInt(0), NORMAL_FORCE_LB)
                 THEN RDiv(avgLbTwoPass, NORMAL_FORCE_LB) ELSE RInt(0),
         fwdCount |-> fwdTrimmedCount, revCount |-> revTrimmedCount,
         fwdAvg |-> fwdAvg, revAvg |-> revAvg,
         serial |-> fwdCall.serial \o revCall.serial \o warning,
         trimSamplesPerSide |-> trimSamplesPerSide,
         fwdStartIdx |-> fw.startIdx, fwdEndIdx |-> fw.endIdx,
         revStartIdx |-> rw.startIdx, revEndIdx |-> rw.endIdx]

\* The MeasureResult of a single-core pass that captured smp: samples NULL,
\* count 0 and avgLb 0.0 when the sample array could not be allocated.
MeasureResultOf(smp, allocOk, heapOk) ==
    IF ~allocOk
    THEN [count |-> 0, avgLb |-> RInt(0),
          serial |-> <<"ERROR: Failed to allocate sample array">>]
    ELSE LET call == calculatePercentileAverage(smp, Len(smp), heapOk)
         IN  [count |-> Len(smp), avgLb |-> call.value, serial |-> call.serial]

\* The single-core runTest from "Sample-weighted average" on.
runTestSingleCore(fwd, rev) ==
    LET weightedSum == RAdd(RMul(RAbs(fwd.avgLb), RInt(fwd.count)),
                            RMul(RAbs(rev.avgLb), RInt(rev.count)))
        totalCount == fwd.count + rev.count
        avgLbTwoPass == IF totalCount > 0 THEN RDiv(weightedSum, RInt(totalCount))
                        ELSE RInt(0)
        zero == NORMAL_FORCE_LB = RInt(0)
    IN  [avgFrictionLb |-> avgLbTwoPass,
         cof |-> IF zero THEN RInt(0) ELSE RDiv(avgLbTwoPass, NORMAL_FORCE_LB),
         fwdCount |-> fwd.count, revCount |-> rev.count,
         fwdAvg |-> fwd.avgLb, revAvg |-> rev.avgLb,
         serial |-> fwd.serial \o rev.serial \o
                    (IF zero THEN <<"ERROR: Division by zero - NORMAL_FORCE_LB is 0!">>
                     ELSE <<>>)]

NoRun == [variant |-> "none", fwd |-> <<>>, rev |-> <<>>, out |-> <<>>]

\* No move on one core made yet.
NoMove ==
    [fn |-> "none", pc |-> "idle", steps |-> 0, trimSteps |-> 0, allocOk |-> TRUE,
     i |-> 0, pulses |-> 0, nF |-> 0, samples |-> <<>>, sumF |-> RInt(0),
     queries |-> 0, notReady |-> 0, reads |-> 0, delays |-> 0,
     avgLb |-> RInt(0), serial |-> <<>>]

\* Preferences with nothing stored under "calib" and "tare".
NoPrefs == [saved |-> FALSE, cal |-> RInt(0), tare |-> 0]

\* No tare or calibration operation performed yet.
NoCalOp == [op |-> "none", oled |-> ""]

\* No homing called yet.  now is millis(), startTime the local of the homing,
\* waited the time really spent since startTime was taken, enabled the
\* stepper driver's enable input, toward and away the steps made toward the
\* limit switch and away from it in the first and in the second half.
NoHome ==
    [fn |-> "none", pc |-> "idle", now |-> 0, startTime |-> 0, waited |-> 0,
     i |-> 0, enabled |-> FALSE, toward |-> <<0, 0>>, away |-> <<0, 0>>,
     timedOut |-> "none", result |-> TRUE, serial |-> <<>>]

\* No button polled.
NoButton == [pc |-> "none"]

\* writeToRFID not called yet.  now is millis(); errors, timeouts and
\* successes count the accumulate calls that returned an error, the polling
\* loops left on their timeout and the calls that returned Success; last is
\* the result of the accumulate call of the step just made ("none": no call).
\* sinceAttempt, sinceHold and sincePoll are the ticks really passed since
\* attemptStartTime, holdStart and lastPollTime were taken from millis();
\* polled says that lastPollTime was taken from millis() in this attempt.
NoRfid ==
    [pc |-> "idle", now |-> 0, attemptStartTime |-> 0, lastPollTime |-> 0,
     holdStart |-> 0, attemptNumber |-> 0, errors |-> 0, timeouts |-> 0,
     successes |-> 0, tagFull |-> FALSE, aborted |-> FALSE, last |-> "none",
     result |-> FALSE, sinceAttempt |-> 0, sinceHold |-> 0, sincePoll |-> 0,
     polled |-> FALSE]

CtlUnused ==
    /\ hm = NoHome
    /\ btn = NoButton
    /\ rfid = NoRfid

\* No command sent to the motion task yet.  Commands are named by their
\* place in RunTestRequests: sent lists the commands enqueued, queued those
\* in the queue (oldest first), executing is the command the motion task is
\* executing (0: none), completed lists the commands it has finished and
\* gives counts its xSemaphoreGive calls.
NoMotionLog ==
    [sent |-> <<>>, queued |-> <<>>, executing |-> 0, completed |-> <<>>, gives |-> 0]

\* The dual-core globals as the program starts, before setup() created the
\* queue, the semaphore and the two tasks.
DualUnused ==
    /\ motionCommandQueue = <<>>
    /\ motionCompleteSemaphore = 0
    /\ g_currentPhase = "PHASE_NONE"
    /\ g_collectSamples = FALSE
    /\ g_fwdSamples = [i \in 1..MAX_SAMPLES |-> RInt(0)]
    /\ g_revSamples = [i \in 1..MAX_SAMPLES |-> RInt(0)]
    /\ g_fwdSampleCount = 0
    /\ g_revSampleCount = 0
    /\ runTestTask = [at |-> "none", k |-> 0, acks |-> <<>>]
    /\ motionTaskState = [pc |-> "none"]
    /\ samplingTaskState = [pc |-> "none"]
    /\ passLog = <<>>
    /\ g_motionActive = FALSE
    /\ motionLog = NoMotionLog

\* The force on the reverse pass pulls the other way: its readings have the
\* opposite sign.
Negated(s) == [i \in 1..Len(s) |-> RSub(RInt(0), s[i])] \o <<>>

----------------------------------------------------------------------------
(* Force conversion (Friction-Tester.ino) *)

\* rawToPounds with the "if (g_calibration == 0.0f)" guard taken out.
rawToPounds_noGuard(raw, tare, calibration) ==
    [value |-> RDiv(RInt(raw - tare), calibration), serial |-> <<>>]

\* float rawToPounds(long raw), reading the globals g_tareRaw and
\* g_calibration: the value returned and the lines printed.
rawToPounds(raw, tare, calibration) ==
    IF calibration = RInt(0)
    THEN [value |-> RInt(0),
          serial |-> <<"ERROR: Division by zero - g_calibration is 0!">>]
    ELSE [value |-> RDiv(RInt(raw - tare), calibration), serial |-> <<>>]

\* The calibration as the program starts: float g_calibration = 1000.0f;
\* long g_tareRaw = 0;
DefaultCalibration == RInt(1000)

NoLbs == [called |-> FALSE, raw |-> 0, value |-> RInt(0), serial |-> <<>>]

ConvUnused ==
    /\ g_calibration = DefaultCalibration
    /\ g_tareRaw = 0
    /\ lbs = NoLbs
    /\ prefs = NoPrefs
    /\ calOp = NoCalOp

CofUnused ==
    /\ fwdSamples = <<>>
    /\ revSamples = <<>>
    /\ normalForceLb = RInt(0)
    /\ trimFraction = RInt(0)
    /\ avgFn = "none"
    /\ result = ZeroResult
    /\ serial = <<>>
    /\ pairs = <<>>
    /\ avgArgs = <<>>
    /\ avgLeft = <<>>
    /\ mallocLog = <<>>
    /\ freeLog = <<>>
    /\ samples = <<>>
    /\ avgOut = NoOut

\* Calibration factors the calibration subsystem can have stored (loaded
\* from preferences as saved), tare offsets and raw HX711 readings.
Calibrations == {RInt(0), DefaultCalibration, RInt(-2), <<1, 2>>, RInt(3)}
Tares == {-1, 0, 2}
RawReadings == (-MaxRaw)..MaxRaw

InitConv ==
    /\ g_calibration \in Calibrations
    /\ g_tareRaw \in Tares
    /\ lbs = NoLbs
    /\ prefs = [saved |-> TRUE, cal |-> g_calibration, tare |-> g_tareRaw]
    /\ calOp = NoCalOp
    /\ pc = "idle"
    /\ CofUnused
    /\ csv = <<>>
    /\ rr = NoRun
    /\ mv = NoMove
    /\ CtlUnused
    /\ DualUnused

CallRawToPounds ==
    /\ pc = "idle"
    /\ \E raw \in RawReadings :
         LET out == rawToPounds(raw, g_tareRaw, g_calibration)
         IN  lbs' = [called |-> TRUE, raw |-> raw, value |-> out.value,
                     serial |-> out.serial]
    /\ pc' = "done"
    /\ UNCHANGED <<cofVars, g_calibration, g_tareRaw, prefs, calOp, csv, rr, mv,
                   ctlVars, dualVars>>

NextConv == CallRawToPounds

SpecConv == InitConv /\ [][NextConv]_vars

----------------------------------------------------------------------------
(* Moves on one core (Friction-Tester.ino, unnamed/part_000).  A move is    *)
(* followed step by step: mv.i is the loop index, mv.pulses the number of   *)
(* doStepBlocking calls made, and mv.queries, mv.notReady, mv.reads and     *)
(* mv.delays count, since the last step pulse, the scale.is_ready() calls,  *)
(* those that answered false, the scale.read() calls and the delay(1)       *)
(* calls.                                                                    *)

\* Raw values scale.read() returns.
SensorReadings == {1, 3}

\* const int HX_SAMPLES_MEAS = 5;
HX_SAMPLES_MEAS == 5

Entered(fn, steps, trimSteps) ==
    [NoMove EXCEPT !.fn = fn, !.pc = "loop", !.steps = steps, !.trimSteps = trimSteps]

InLoop(fn) == mv.fn = fn /\ mv.pc = "loop" /\ mv.i < mv.steps
AtLoopEnd(fn) == mv.fn = fn /\ mv.pc = "loop" /\ ~(mv.i < mv.steps)

\* measureDuringMove of Friction-Tester.ino: up to the malloc and its check.
CallMeasureDuringMove ==
    /\ mv.pc = "idle"
    /\ \E steps \in 0..MaxSteps, trimSteps \in 0..MaxTrimSteps, allocOk \in BOOLEAN :
         mv' = IF allocOk
               THEN Entered("measureDuringMove", steps, trimSteps)
               ELSE [NoMove EXCEPT !.fn = "measureDuringMove", !.pc = "returned",
                                   !.steps = steps, !.trimSteps = trimSteps,
                                   !.allocOk = FALSE,
                                   !.serial = <<"ERROR: Failed to allocate sample array">>]
    /\ UNCHANGED <<cofVars, pc, convVars, csv, rr, ctlVars, dualVars>>

\* measureDuringMove zeroing the scale on the first sample of a pass.
StepMeasureDuringMove_autoTare ==
    /\ InLoop("measureDuringMove")
    /\ \E ready \in BOOLEAN, raw \in SensorReadings :
         LET inMeasurementWindow ==
                 mv.i >= mv.trimSteps /\ mv.i < mv.steps - mv.trimSteps
             take == inMeasurementWindow /\ ready /\ mv.nF < MAX_SAMPLES
             lb == rawToPounds(raw, g_tareRaw, g_calibration)
         IN  /\ mv' = [mv EXCEPT
                         !.pulses = @ + 1,
                         !.queries = IF inMeasurementWindow THEN 1 ELSE 0,
                         !.notReady = IF inMeasurementWindow /\ ~ready THEN 1 ELSE 0,
                         !.reads = IF take THEN 1 ELSE 0,
                         !.delays = 0,
                         !.samples = IF take THEN Append(@, lb.value) ELSE @,
                         !.nF = IF take THEN @ + 1 ELSE @,
                         !.serial = IF take THEN @ \o lb.serial ELSE @,
                         !.i = @ + 1]
             /\ g_tareRaw' = IF take /\ mv.nF = 0 THEN raw ELSE g_tareRaw
    /\ UNCHANGED <<cofVars, pc, g_calibration, lbs, prefs, calOp, csv, rr,
                   ctlVars, dualVars>>

\* One iteration of its loop: the step pulse, then the non-blocking read.
StepMeasureDuringMove ==
    /\ InLoop("measureDuringMove")
    /\ \E ready \in BOOLEAN, raw \in SensorReadings :
         LET inMeasurementWindow ==
                 mv.i >= mv.trimSteps /\ mv.i < mv.steps - mv.trimSteps
             take == inMeasurementWindow /\ ready /\ mv.nF < MAX_SAMPLES
             lb == rawToPounds(raw, g_tareRaw, g_calibration)
         IN  mv' = [mv EXCEPT
                      !.pulses = @ + 1,
                      !.queries = IF inMeasurementWindow THEN 1 ELSE 0,
                      !.notReady = IF inMeasurementWindow /\ ~ready THEN 1 ELSE 0,
                      !.reads = IF take THEN 1 ELSE 0,
                      !.delays = 0,
                      !.samples = IF take THEN Append(@, lb.value) ELSE @,
                      !.nF = IF take THEN @ + 1 ELSE @,
                      !.serial = IF take THEN @ \o lb.serial ELSE @,
                      !.i = @ + 1]
    /\ UNCHANGED <<cofVars, pc, convVars, csv, rr, ctlVars, dualVars>>

\* After the loop: mr.count = nF, mr.avgLb = calculatePercentileAverage(...)
ReturnMeasureDuringMove ==
    /\ AtLoopEnd("measureDuringMove")
    /\ \E heapOk \in BOOLEAN :
         LET call == calculatePercentileAverage(mv.samples, mv.nF, heapOk)
         IN  mv' = [mv EXCEPT !.pc = "returned", !.avgLb = call.value,
                              !.serial = @ \o call.serial]
    /\ UNCHANGED <<cofVars, pc, convVars, csv, rr, ctlVars, dualVars>>

\* executePureMove: setDir, then pure stepping.
CallExecutePureMove ==
    /\ mv.pc = "idle"
    /\ \E steps \in 0..MaxSteps : mv' = Entered("executePureMove", steps, 0)
    /\ UNCHANGED <<cofVars, pc, convVars, csv, rr, ctlVars, dualVars>>

StepExecutePureMove ==
    /\ InLoop("executePureMove")
    /\ mv' = [mv EXCEPT !.pulses = @ + 1, !.i = @ + 1]
    /\ UNCHANGED <<cofVars, pc, convVars, csv, rr, ctlVars, dualVars>>

ReturnExecutePureMove ==
    /\ AtLoopEnd("executePureMove")
    /\ mv' = [mv EXCEPT !.pc = "returned"]
    /\ UNCHANGED <<cofVars, pc, convVars, csv, rr, ctlVars, dualVars>>

\* measureDuringMove of unnamed/part_000 (running sum, no sample array).
CallMeasureDuringMoveSum ==
    /\ mv.pc = "idle"
    /\ \E steps \in 0..MaxSteps : mv' = Entered("measureDuringMoveSum", steps, 0)
    /\ UNCHANGED <<cofVars, pc, convVars, csv, rr, ctlVars, dualVars>>

StepMeasureDuringMoveSum ==
    /\ InLoop("measureDuringMoveSum")
    /\ \E ready \in BOOLEAN, raw \in SensorReadings :
         LET lb == rawToPounds_noGuard(raw, g_tareRaw, g_calibration)
         IN  mv' = [mv EXCEPT
                      !.pulses = @ + 1,
                      !.queries = 1,
                      !.notReady = IF ready THEN 0 ELSE 1,
                      !.reads = IF ready THEN 1 ELSE 0,
                      !.delays = 0,
                      !.sumF = IF ready THEN RAdd(@, lb.value) ELSE @,
                      !.nF = IF ready THEN @ + 1 ELSE @,
                      !.i = @ + 1]
    /\ UNCHANGED <<cofVars, pc, convVars, csv, rr, ctlVars, dualVars>>

ReturnMeasureDuringMoveSum ==
    /\ AtLoopEnd("measureDuringMoveSum")
    /\ mv' = [mv EXCEPT !.pc = "returned",
                        !.avgLb = IF mv.nF > 0 THEN RDiv(mv.sumF, RInt(mv.nF))
                                  ELSE RInt(0)]
    /\ UNCHANGED <<cofVars, pc, convVars, csv, rr, ctlVars, dualVars>>

\* long hxReadRawAvg(int n): n times, wait until the sensor is ready (delay(1)
\* per poll that finds it not ready), then read; the mean of the n readings.
hxReadRawAvg(raws, n) ==
    LET Sum[k \in 0..n] == IF k = 0 THEN 0 ELSE Sum[k - 1] + raws[k]
        q == Sum[n]
    IN  IF q >= 0 THEN q \div n ELSE -((-q) \div n)

\* The measuring loop of runTest in the first variant of unnamed/part_000:
\* a step pulse, then hxReadRawAvg(HX_SAMPLES_MEAS).
CallRunTestMeasuring ==
    /\ mv.pc = "idle"
    /\ \E steps \in 0..MaxSteps : mv' = Entered("runTestMeasuring", steps, 0)
    /\ UNCHANGED <<cofVars, pc, convVars, csv, rr, ctlVars, dualVars>>

StepRunTestMeasuring ==
    /\ InLoop("runTestMeasuring")
    /\ \E raws \in [1..HX_SAMPLES_MEAS -> SensorReadings], delays \in 0..MaxDelays :
         LET lb == rawToPounds_noGuard(hxReadRawAvg(raws, HX_SAMPLES_MEAS),
                                       g_tareRaw, g_calibration)
         IN  mv' = [mv EXCEPT
                      !.pulses = @ + 1,
                      !.queries = HX_SAMPLES_MEAS + delays,
                      !.notReady = delays,
                      !.reads = HX_SAMPLES_MEAS,
                      !.delays = delays,
                      !.sumF = RAdd(@, lb.value),
                      !.nF = @ + 1,
                      !.i = @ + 1]
    /\ UNCHANGED <<cofVars, pc, convVars, csv, rr, ctlVars, dualVars>>

ReturnRunTestMeasuring ==
    /\ AtLoopEnd("runTestMeasuring")
    /\ mv' = [mv EXCEPT !.pc = "returned",
                        !.avgLb = IF mv.nF > 0 THEN RDiv(mv.sumF, RInt(mv.nF))
                                  ELSE RInt(0)]
    /\ UNCHANGED <<cofVars, pc, convVars, csv, rr, ctlVars, dualVars>>

InitMove ==
    /\ mv = NoMove
    /\ pc = "idle"
    /\ CofUnused
    /\ ConvUnused
    /\ csv = <<>>
    /\ rr = NoRun
    /\ CtlUnused
    /\ DualUnused

NextMove ==
    \/ CallMeasureDuringMove \/ StepMeasureDuringMove \/ ReturnMeasureDuringMove
    \/ CallExecutePureMove \/ StepExecutePureMove \/ ReturnExecutePureMove
    \/ CallMeasureDuringMoveSum \/ StepMeasureDuringMoveSum
    \/ ReturnMeasureDuringMoveSum
    \/ CallRunTestMeasuring \/ StepRunTestMeasuring \/ ReturnRunTestMeasuring

SpecMove == InitMove /\ [][NextMove]_vars

----------------------------------------------------------------------------
(* Tare and calibration (Friction-Tester.ino): the two operations of the    *)
(* idle loop that write g_tareRaw and g_calibration, and the Preferences    *)
(* they are saved to.  SpecCal runs them around a measured move of the     *)
(* one-core variant.                                                        *)

\* const float CAL_WEIGHT_LB = 3.883;
CAL_WEIGHT_LB == <<3883, 1000>>

\* const int HX_SAMPLES_TARE = 20;
HX_SAMPLES_TARE == 20

\* Raw HX711 readings with no load, and the counts a weight put on adds.
TareReadings == {0, 90}
WeightCounts == {0, 90, 3883, -7766}

\* HX_SAMPLES_TARE readings of a steady load.
Steady(raw) == [k \in 1..HX_SAMPLES_TARE |-> raw]

\* void saveCalibration(): putFloat(KEY_CAL, g_calibration),
\* putLong(KEY_TARE, g_tareRaw)
saveCalibration(calibration, tareRaw) ==
    [saved |-> TRUE, cal |-> calibration, tare |-> tareRaw]

\* void loadCalibration(): getFloat(KEY_CAL, NAN), getLong(KEY_TARE, 0);
\* a stored calibration replaces the one given unless it is NaN.
loadCalibration(p, calibration) ==
    LET cal == IF p.saved THEN p.cal ELSE <<0, 0>>
        tare == IF p.saved THEN p.tare ELSE 0
    IN  [g_calibration |-> IF cal[2] # 0 \/ cal[1] # 0 THEN cal ELSE calibration,
         g_tareRaw |-> tare]

\* What an earlier session can have left in the Preferences.
StoredPrefs == {NoPrefs, saveCalibration(RInt(2000), 90)}

\* setup() done: loadCalibration() has run on the globals' initial values.
InitCal ==
    /\ prefs \in StoredPrefs
    /\ g_calibration = loadCalibration(prefs, DefaultCalibration).g_calibration
    /\ g_tareRaw = loadCalibration(prefs, DefaultCalibration).g_tareRaw
    /\ calOp = NoCalOp
    /\ lbs = NoLbs
    /\ pc = "idle"
    /\ CofUnused
    /\ csv = <<>>
    /\ rr = NoRun
    /\ mv = NoMove
    /\ CtlUnused
    /\ DualUnused

\* The idle loop runs between tests: no move is under way.
InIdleLoop == mv.pc \in {"idle", "returned"}

\* void tareNow(), on a short press of ZERO.
TareNow ==
    /\ InIdleLoop
    /\ \E raw \in TareReadings :
         /\ g_tareRaw' = hxReadRawAvg(Steady(raw), HX_SAMPLES_TARE)
         /\ prefs' = saveCalibration(g_calibration, g_tareRaw')
    /\ calOp' = [op |-> "tareNow", oled |-> ""]
    /\ UNCHANGED <<cofVars, pc, g_calibration, lbs, csv, rr, mv, ctlVars, dualVars>>

\* doCalibration3lb with "return" taken out of the "CAL FAILED" branch.
DoCalibration3lb_savesAnyway ==
    /\ InIdleLoop
    /\ \E rawTare \in TareReadings, counts \in WeightCounts :
         LET tare == hxReadRawAvg(Steady(rawTare), HX_SAMPLES_TARE)
             raw3 == hxReadRawAvg(Steady(rawTare + counts), HX_SAMPLES_TARE)
             delta == raw3 - tare
         IN  /\ g_tareRaw' = tare
             /\ g_calibration' = RDiv(RInt(delta), CAL_WEIGHT_LB)
             /\ prefs' = saveCalibration(g_calibration', tare)
             /\ calOp' = [op |-> "doCalibration3lb",
                          oled |-> IF Abs(delta) < 100 THEN "CAL FAILED" ELSE "CAL DONE"]
    /\ UNCHANGED <<cofVars, pc, lbs, csv, rr, mv, ctlVars, dualVars>>

\* void doCalibration3lb(), on a long press of ZERO: the tare reading, the
\* reading with the weight on, and the calibration computed and saved unless
\* the signal is too small.  Its moves to the calibration position and back
\* home and its waits for START leave the calibration alone.
DoCalibration3lb ==
    /\ InIdleLoop
    /\ \E rawTare \in TareReadings, counts \in WeightCounts :
         LET tare == hxReadRawAvg(Steady(rawTare), HX_SAMPLES_TARE)
             raw3 == hxReadRawAvg(Steady(rawTare + counts), HX_SAMPLES_TARE)
             delta == raw3 - tare
         IN  /\ g_tareRaw' = tare
             /\ IF Abs(delta) < 100
                THEN /\ calOp' = [op |-> "doCalibration3lb", oled |-> "CAL FAILED"]
                     /\ UNCHANGED <<g_calibration, prefs>>
                ELSE /\ g_calibration' = RDiv(RInt(delta), CAL_WEIGHT_LB)
                     /\ prefs' = saveCalibration(g_calibration', tare)
                     /\ calOp' = [op |-> "doCalibration3lb", oled |-> "CAL DONE"]
    /\ UNCHANGED <<cofVars, pc, lbs, csv, rr, mv, ctlVars, dualVars>>

NextCal ==
    \/ TareNow \/ DoCalibration3lb
    \/ CallMeasureDuringMove \/ StepMeasureDuringMove \/ ReturnMeasureDuringMove

SpecCal == InitCal /\ [][NextCal]_vars

----------------------------------------------------------------------------

\* setup() after a reset: the globals take their initial values and
\* loadCalibration() reads the Preferences.
SetupLoadCalibration ==
    /\ InIdleLoop
    /\ g_calibration' = loadCalibration(prefs, DefaultCalibration).g_calibration
    /\ g_tareRaw' = loadCalibration(prefs, DefaultCalibration).g_tareRaw
    /\ calOp' = [op |-> "loadCalibration", oled |-> ""]
    /\ lbs' = NoLbs
    /\ pc' = "idle"
    /\ UNCHANGED <<cofVars, prefs, csv, rr, mv, ctlVars, dualVars>>

NextCalBoot ==
    TareNow \/ DoCalibration3lb \/ SetupLoadCalibration \/ CallRawToPounds

\* Tare, calibration, resets and a conversion, in any order.
SpecCalBoot == InitCal /\ [][NextCalBoot]_vars

(* The dual-core architecture (Friction-Tester.ino): runTest on core 0      *)
(* sends motion commands through requestMotion, motionTask on core 1        *)
(* executes them, forceSamplingTask on core 0 fills the pass buffers.       *)

\* xQueueCreate(5, sizeof(MotionRequest))
QueueLength == 5

\* What a command can last, in milliseconds: a homing is two approaches of
\* up to HOMING_TIMEOUT_MS each; a move is steps * 2 * STEP_PULSE_US.
HOMING_TIMEOUT_MS == 100000
STEP_PULSE_US == 150
steps_lower == 25333

DurationMs(req) ==
    IF req.cmd = "CMD_HOME" THEN 2 * HOMING_TIMEOUT_MS
    ELSE IF req.cmd = "CMD_MOVE" THEN (steps_lower * 2 * STEP_PULSE_US) \div 1000
    ELSE IF req.cmd = "CMD_MEASURE_MOVE" THEN (steps_measure * 2 * STEP_PULSE_US) \div 1000
    ELSE 0

MotionRequest(cmd, steps, direction, phase) ==
    [cmd |-> cmd, steps |-> steps, direction |-> direction, phase |-> phase]

\* The requestMotion calls of runTest in order, each with its timeoutMs
\* (60000 when left out).  Step counts are scaled to ScaledSteps.
RunTestRequests ==
    << [req |-> MotionRequest("CMD_HOME", 0, FALSE, "PHASE_HOMING"), timeoutMs |-> 60000],
       [req |-> MotionRequest("CMD_ENABLE", 0, FALSE, "PHASE_HOMING"), timeoutMs |-> 1000],
       [req |-> MotionRequest("CMD_MOVE", ScaledSteps, TRUE, "PHASE_LOWERING"),
        timeoutMs |-> 60000],
       [req |-> MotionRequest("CMD_MEASURE_MOVE", ScaledSteps, TRUE, "PHASE_MEASURING_FWD"),
        timeoutMs |-> 60000],
       [req |-> MotionRequest("CMD_MEASURE_MOVE", ScaledSteps, FALSE, "PHASE_MEASURING_REV"),
        timeoutMs |-> 60000],
       [req |-> MotionRequest("CMD_MOVE", ScaledSteps, FALSE, "PHASE_RETURNING"),
        timeoutMs |-> 60000],
       [req |-> MotionRequest("CMD_HOME", 0, FALSE, "PHASE_HOMING"), timeoutMs |-> 60000],
       [req |-> MotionRequest("CMD_DISABLE", ScaledSteps, FALSE, "PHASE_RETURNING"),
        timeoutMs |-> 1000] >>

PassOf(phase) ==
    IF phase = "PHASE_MEASURING_FWD" THEN "fwd"
    ELSE IF phase = "PHASE_MEASURING_REV" THEN "rev" ELSE "none"

NoPass == [begun |-> FALSE, resets |-> 0, reads |-> 0, full |-> FALSE]

\* setup() done: queue and semaphore created empty, both tasks started, and
\* runTest about to run.
InitDual ==
    /\ motionCommandQueue = <<>>
    /\ motionCompleteSemaphore = 0
    /\ g_currentPhase = "PHASE_NONE"
    /\ g_collectSamples = FALSE
    /\ g_fwdSamples = [i \in 1..MAX_SAMPLES |-> RInt(0)]
    /\ g_revSamples = [i \in 1..MAX_SAMPLES |-> RInt(0)]
    /\ g_fwdSampleCount = 0
    /\ g_revSampleCount = 0
    /\ runTestTask = [at |-> "start", k |-> 0, acks |-> <<>>]
    /\ motionTaskState = [pc |-> "receive"]
    /\ samplingTaskState = [pc |-> "poll"]
    /\ passLog = [fwd |-> NoPass, rev |-> NoPass]
    /\ g_motionActive = FALSE
    /\ motionLog = NoMotionLog
    /\ pc = "idle"
    /\ CofUnused
    /\ ConvUnused
    /\ csv = <<>>
    /\ rr = NoRun
    /\ mv = NoMove
    /\ CtlUnused

soloVars == <<cofVars, pc, convVars, csv, rr, mv, ctlVars>>

\* runTest: "Reset sample counters", up to the first requestMotion.
RunTestStart ==
    /\ runTestTask.at = "start"
    /\ g_fwdSampleCount' = 0
    /\ g_revSampleCount' = 0
    /\ runTestTask' = [runTestTask EXCEPT !.at = "send", !.k = 1]
    /\ UNCHANGED <<soloVars, motionCommandQueue, motionCompleteSemaphore,
                   g_currentPhase, g_collectSamples, g_fwdSamples, g_revSamples,
                   motionTaskState, samplingTaskState, passLog, g_motionActive,
                   motionLog>>

\* requestMotion returned r: runTest goes on to its next call.  Between the
\* two measurement passes it pauses 600 ms (delay(600)); the sampling task,
\* which polls every 1 to 10 ms, has by then left a pass that is over.
Returned_requestMotion(r) ==
    [at |-> IF runTestTask.k = Len(RunTestRequests) THEN "done" ELSE "send",
     k |-> runTestTask.k + 1,
     acks |-> Append(runTestTask.acks, r)]

\* runTest after its last requestMotion call: the serial report and the
\* averages, read off the two global buffers and their counters.
RunTestResults ==
    /\ runTestTask.at = "done"
    /\ runTestTask' = [runTestTask EXCEPT !.at = "returned"]
    /\ \E heapOk \in BOOLEAN :
         rr' = [variant |-> "dual-core", fwd |-> g_fwdSamples, rev |-> g_revSamples,
                out |-> <<runTestDualCore(g_fwdSamples, g_fwdSampleCount,
                                          g_revSamples, g_revSampleCount, heapOk)>>]
    /\ UNCHANGED <<cofVars, pc, convVars, csv, mv, ctlVars, motionCommandQueue,
                   motionCompleteSemaphore, g_currentPhase, g_collectSamples,
                   g_fwdSamples, g_revSamples, g_fwdSampleCount, g_revSampleCount,
                   motionTaskState, samplingTaskState, passLog, g_motionActive,
                   motionLog>>

\* requestMotion, first half: xQueueSend with a 100 ms wait.  It fails when
\* the queue is full and stays full, the motion task being busy stepping.
RequestMotionSend ==
    /\ runTestTask.at = "send"
    /\ (runTestTask.k = 5 /\ ~g_collectSamples) => samplingTaskState.pc = "poll"
    /\ IF Len(motionCommandQueue) < QueueLength
       THEN /\ motionCommandQueue' =
                   Append(motionCommandQueue, RunTestRequests[runTestTask.k].req)
            /\ motionLog' = [motionLog EXCEPT !.sent = Append(@, runTestTask.k),
                                              !.queued = Append(@, runTestTask.k)]
            /\ runTestTask' = [runTestTask EXCEPT !.at = "wait"]
       ELSE /\ motionTaskState.pc = "executing"
            /\ runTestTask' = Returned_requestMotion(FALSE)
            /\ UNCHANGED <<motionCommandQueue, motionLog>>
    /\ UNCHANGED <<soloVars, motionCompleteSemaphore, g_currentPhase,
                   g_collectSamples, g_fwdSamples, g_revSamples, g_fwdSampleCount,
                   g_revSampleCount, motionTaskState, samplingTaskState, passLog,
                   g_motionActive>>

\* requestMotion, second half: xSemaphoreTake succeeded.
RequestMotionAcknowledged ==
    /\ runTestTask.at = "wait"
    /\ motionCompleteSemaphore = 1
    /\ motionCompleteSemaphore' = 0
    /\ runTestTask' = Returned_requestMotion(TRUE)
    /\ UNCHANGED <<soloVars, motionCommandQueue, g_currentPhase, g_collectSamples,
                   g_fwdSamples, g_revSamples, g_fwdSampleCount, g_revSampleCount,
                   motionTaskState, samplingTaskState, passLog, g_motionActive,
                   motionLog>>

\* requestMotion, second half: xSemaphoreTake timed out ("ERROR: Motion
\* timeout").  The wait can run out while the motion task executes a command
\* that lasts longer than the waits that ran out during it.
RequestMotionTimeout ==
    /\ runTestTask.at = "wait"
    /\ motionCompleteSemaphore = 0
    /\ motionTaskState.pc = "executing"
    /\ LET spent == motionTaskState.outlastedMs + RunTestRequests[runTestTask.k].timeoutMs
       IN  /\ spent <= DurationMs(motionTaskState.req)
           /\ motionTaskState' = [motionTaskState EXCEPT !.outlastedMs = spent]
    /\ runTestTask' = Returned_requestMotion(FALSE)
    /\ UNCHANGED <<soloVars, motionCommandQueue, motionCompleteSemaphore,
                   g_currentPhase, g_collectSamples, g_fwdSamples, g_revSamples,
                   g_fwdSampleCount, g_revSampleCount, samplingTaskState, passLog,
                   g_motionActive, motionLog>>

\* motionTask: xQueueReceive returned a request (the oldest in the queue);
\* g_motionActive = true; the switch up to the first
\* step.  executeHome is taken as a move of 1..MaxHomeSteps steps (it ends
\* when the limit switch closes or its time runs out).
MotionReceive ==
    /\ motionTaskState.pc = "receive"
    /\ motionCommandQueue # <<>>
    /\ LET req == Head(motionCommandQueue)
           sampled == req.cmd = "CMD_MEASURE_MOVE"
           stepping == req.cmd \in {"CMD_MOVE", "CMD_MEASURE_MOVE"}
       IN  /\ motionCommandQueue' = Tail(motionCommandQueue)
           /\ \E homeSteps \in 1..MaxHomeSteps :
                 motionTaskState' =
                     [pc |-> "executing", req |-> req, i |-> 0, outlastedMs |-> 0,
                      steps |-> IF req.cmd = "CMD_HOME" THEN homeSteps
                                ELSE IF stepping THEN req.steps ELSE 0]
           /\ g_currentPhase' = IF req.cmd = "CMD_HOME" THEN "PHASE_HOMING"
                                ELSE IF stepping THEN req.phase ELSE g_currentPhase
           /\ g_collectSamples' = IF sampled THEN TRUE ELSE g_collectSamples
           /\ g_motionActive' = TRUE
           /\ motionLog' = [motionLog EXCEPT !.queued = Tail(@),
                                             !.executing = Head(motionLog.queued)]
           /\ passLog' = IF sampled /\ PassOf(req.phase) # "none"
                         THEN [passLog EXCEPT ![PassOf(req.phase)] =
                                                 [NoPass EXCEPT !.begun = TRUE]]
                         ELSE passLog
    /\ UNCHANGED <<soloVars, motionCompleteSemaphore, g_fwdSamples, g_revSamples,
                   g_fwdSampleCount, g_revSampleCount, runTestTask, samplingTaskState>>

\* doStepBlocking followed by a sample taken by the motion task itself, as
\* measureDuringMove does on one core.
MotionStep_samples ==
    /\ motionTaskState.pc = "executing"
    /\ motionTaskState.i < motionTaskState.steps
    /\ motionTaskState' = [motionTaskState EXCEPT !.i = @ + 1]
    /\ g_fwdSampleCount' = IF g_collectSamples /\ g_fwdSampleCount < MAX_SAMPLES
                           THEN g_fwdSampleCount + 1 ELSE g_fwdSampleCount
    /\ UNCHANGED <<soloVars, motionCommandQueue, motionCompleteSemaphore,
                   g_currentPhase, g_collectSamples, g_fwdSamples, g_revSamples,
                   g_revSampleCount, runTestTask,
                   samplingTaskState, passLog, g_motionActive, motionLog>>

\* doStepBlocking in executePureMove or executeHome
MotionStep ==
    /\ motionTaskState.pc = "executing"
    /\ motionTaskState.i < motionTaskState.steps
    /\ motionTaskState' = [motionTaskState EXCEPT !.i = @ + 1]
    /\ UNCHANGED <<soloVars, motionCommandQueue, motionCompleteSemaphore,
                   g_currentPhase, g_collectSamples, g_fwdSamples, g_revSamples,
                   g_fwdSampleCount, g_revSampleCount, runTestTask,
                   samplingTaskState, passLog, g_motionActive, motionLog>>

\* motionTask signalling the completion without "g_currentPhase =
\* PHASE_NONE".
MotionComplete_phaseKept ==
    /\ motionTaskState.pc = "executing"
    /\ motionTaskState.i = motionTaskState.steps
    /\ g_collectSamples' = IF motionTaskState.req.cmd = "CMD_MEASURE_MOVE" THEN FALSE
                           ELSE g_collectSamples
    /\ motionCompleteSemaphore' = 1
    /\ g_motionActive' = FALSE
    /\ motionLog' = [motionLog EXCEPT !.completed = Append(@, motionLog.executing),
                                      !.executing = 0,
                                      !.gives = @ + 1]
    /\ motionTaskState' = [pc |-> "receive"]
    /\ UNCHANGED <<soloVars, motionCommandQueue, g_currentPhase, g_fwdSamples,
                   g_revSamples, g_fwdSampleCount, g_revSampleCount, runTestTask,
                   samplingTaskState, passLog>>

\* The command is executed: g_collectSamples = false after a measured move,
\* g_motionActive = false, g_currentPhase = PHASE_NONE, xSemaphoreGive (a
\* given binary semaphore stays given).
MotionComplete ==
    /\ motionTaskState.pc = "executing"
    /\ motionTaskState.i = motionTaskState.steps
    /\ g_collectSamples' = IF motionTaskState.req.cmd = "CMD_MEASURE_MOVE" THEN FALSE
                           ELSE g_collectSamples
    /\ g_currentPhase' = "PHASE_NONE"
    /\ motionCompleteSemaphore' = 1
    /\ g_motionActive' = FALSE
    /\ motionLog' = [motionLog EXCEPT !.completed = Append(@, motionLog.executing),
                                      !.executing = 0,
                                      !.gives = @ + 1]
    /\ motionTaskState' = [pc |-> "receive"]
    /\ UNCHANGED <<soloVars, motionCommandQueue, g_fwdSamples, g_revSamples,
                   g_fwdSampleCount, g_revSampleCount, runTestTask,
                   samplingTaskState, passLog>>

\* forceSamplingTask, outer loop: if (g_collectSamples).  While the flag is
\* false the task sleeps 10 ms and looks again.
SamplerPoll ==
    /\ samplingTaskState.pc = "poll"
    /\ g_collectSamples
    /\ samplingTaskState' = [pc |-> "select"]
    /\ UNCHANGED <<soloVars, motionCommandQueue, motionCompleteSemaphore,
                   g_currentPhase, g_collectSamples, g_fwdSamples, g_revSamples,
                   g_fwdSampleCount, g_revSampleCount, runTestTask,
                   motionTaskState, passLog, g_motionActive, motionLog>>

\* "Determine which buffer to use": the buffer of the current phase, its
\* counter reset to 0; no buffer in any other phase.
SamplerSelect ==
    /\ samplingTaskState.pc = "select"
    /\ LET pass == PassOf(g_currentPhase)
       IN  /\ samplingTaskState' = IF pass = "none" THEN [pc |-> "poll"]
                                   ELSE [pc |-> "sample", buffer |-> pass]
           /\ g_fwdSampleCount' = IF pass = "fwd" THEN 0 ELSE g_fwdSampleCount
           /\ g_revSampleCount' = IF pass = "rev" THEN 0 ELSE g_revSampleCount
           /\ passLog' = IF pass = "none" THEN passLog
                         ELSE [passLog EXCEPT ![pass].resets = @ + 1]
    /\ UNCHANGED <<soloVars, motionCommandQueue, motionCompleteSemaphore,
                   g_currentPhase, g_collectSamples, g_fwdSamples, g_revSamples,
                   runTestTask, motionTaskState, g_motionActive, motionLog>>

\* "while (g_collectSamples && *sampleCount < maxSamples)": the condition
\* is read; the loop is entered for one more turn, or left.
SamplerSample ==
    /\ samplingTaskState.pc = "sample"
    /\ LET pass == samplingTaskState.buffer
           count == IF pass = "fwd" THEN g_fwdSampleCount ELSE g_revSampleCount
       IN  samplingTaskState' = IF g_collectSamples /\ count < MAX_SAMPLES
                                THEN [samplingTaskState EXCEPT !.pc = "read"]
                                ELSE [pc |-> "poll"]
    /\ UNCHANGED <<soloVars, motionCommandQueue, motionCompleteSemaphore,
                   g_currentPhase, g_collectSamples, g_fwdSamples, g_revSamples,
                   g_fwdSampleCount, g_revSampleCount, runTestTask,
                   motionTaskState, passLog, g_motionActive, motionLog>>

\* The body of the loop: if (scale.is_ready()) the reading is stored at the
\* cursor and the cursor advanced; vTaskDelay(1).  The sensor hands out the
\* raw values 1, 2, 3, ... of a pass in order.
SamplerRead ==
    /\ samplingTaskState.pc = "read"
    /\ samplingTaskState' = [samplingTaskState EXCEPT !.pc = "sample"]
    /\ LET pass == samplingTaskState.buffer
           count == IF pass = "fwd" THEN g_fwdSampleCount ELSE g_revSampleCount
       IN  \E ready \in BOOLEAN :
             IF ready
             THEN /\ passLog[pass].reads < MaxReads
                  /\ LET raw == passLog[pass].reads + 1
                         lb == rawToPounds(raw, g_tareRaw, g_calibration).value
                     IN  /\ g_fwdSamples' = IF pass = "fwd"
                                            THEN [g_fwdSamples EXCEPT ![count + 1] = lb]
                                            ELSE g_fwdSamples
                         /\ g_revSamples' = IF pass = "rev"
                                            THEN [g_revSamples EXCEPT ![count + 1] = lb]
                                            ELSE g_revSamples
                         /\ passLog' = [passLog EXCEPT
                                          ![pass].reads = raw,
                                          ![pass].full = @ \/ count + 1 = MAX_SAMPLES]
                  /\ g_fwdSampleCount' = IF pass = "fwd" THEN count + 1
                                         ELSE g_fwdSampleCount
                  /\ g_revSampleCount' = IF pass = "rev" THEN count + 1
                                         ELSE g_revSampleCount
             ELSE UNCHANGED <<g_fwdSamples, g_revSamples, g_fwdSampleCount,
                              g_revSampleCount, passLog>>
    /\ UNCHANGED <<soloVars, motionCommandQueue, motionCompleteSemaphore,
                   g_currentPhase, g_collectSamples, runTestTask, motionTaskState,
                   g_motionActive, motionLog>>

NextDual ==
    \/ RunTestStart \/ RequestMotionSend \/ RequestMotionAcknowledged
    \/ RequestMotionTimeout \/ RunTestResults
    \/ MotionReceive \/ MotionStep \/ MotionComplete
    \/ SamplerPoll \/ SamplerSelect \/ SamplerSample \/ SamplerRead

SpecDual == InitDual /\ [][NextDual]_vars

\* The motion task runs alone on core 1 at the highest priority: it is never
\* kept from its next step.
SpecDualLive ==
    SpecDual /\ WF_vars(MotionReceive) /\ WF_vars(MotionStep) /\ WF_vars(MotionComplete)

----------------------------------------------------------------------------
(* Homing (Friction-Tester.ino): executeHome as the motion task runs it for *)
(* CMD_HOME, and homeToLimit of the two-core and of the one-core half of    *)
(* the file.  The limit switch is read anew at each test of the loop and    *)
(* may never close.  Time is counted in ticks of MsPerTick milliseconds on  *)
(* a clock that wraps around as millis() does; one iteration of a loop of   *)
(* the model stands for the steps made during one tick.                     *)

\* Milliseconds in one tick of the model's clock.
MsPerTick == 20000
\* millis() counts modulo 2^32; the model's clock modulo ClockModulus ticks.
ClockModulus == 8
\* const int BACKOFF_STEPS = 600, in iterations of the model.
BACKOFF_STEPS == 2

\* const uint32_t HOMING_TIMEOUT_MS = 20000 in the one-core homeToLimit
HOMING_TIMEOUT_MS_oneCore == 20000

HomingFns == {"executeHome", "homeToLimit", "homeToLimit_oneCore"}

HomingTimeoutTicks(fn) ==
    IF fn = "homeToLimit_oneCore" THEN HOMING_TIMEOUT_MS_oneCore \div MsPerTick
    ELSE HOMING_TIMEOUT_MS \div MsPerTick

\* now - start taken as a signed difference.
Elapsed_signed(now, start) == now - start

\* now - start in uint32_t arithmetic
Elapsed(now, start) == (now - start) % ClockModulus

\* The clock after one more tick.
Tick(now) == (now + 1) % ClockModulus

\* The globals besides g_motionActive that belong to the two-core tasks.
taskVars == <<motionCommandQueue, motionCompleteSemaphore, g_currentPhase,
              g_collectSamples, g_fwdSamples, g_revSamples, g_fwdSampleCount,
              g_revSampleCount, runTestTask, motionTaskState, samplingTaskState,
              passLog, motionLog>>

InitHome ==
    /\ hm \in {[NoHome EXCEPT !.now = t] : t \in 0..(ClockModulus - 1)}
    /\ btn = NoButton
    /\ rfid = NoRfid
    /\ pc = "idle"
    /\ CofUnused
    /\ ConvUnused
    /\ csv = <<>>
    /\ rr = NoRun
    /\ mv = NoMove
    /\ DualUnused

\* The homing is entered: g_motionActive = true (by motionTask before its
\* switch for executeHome, by homeToLimit itself), stepperEnable(true),
\* setDir(DIR_HOME_TOWARD_LIMIT), startTime = millis().
CallHome ==
    /\ hm.pc = "idle"
    /\ \E fn \in HomingFns :
         hm' = [hm EXCEPT !.fn = fn, !.pc = "approach1", !.enabled = TRUE,
                          !.startTime = hm.now, !.waited = 0]
    /\ g_motionActive' = TRUE
    /\ UNCHANGED <<cofVars, pc, convVars, csv, rr, mv, btn, rfid, taskVars>>

\* What a homing does when it gives up in an approach: the error line
\* (homeToLimit only), stepperEnable(false), g_motionActive = false (by
\* homeToLimit itself; for executeHome by motionTask, to which it returns
\* false, before the completion is signalled).
GivenUp(h, approach) ==
    [h EXCEPT !.pc = "returned", !.enabled = FALSE, !.timedOut = approach,
              !.result = FALSE,
              !.serial = IF h.fn = "executeHome" THEN @
                         ELSE Append(@, "ERROR: Homing timeout on " \o approach
                                        \o " approach!")]

\* The approach loop with its timeout test taken out, as in the homeToLimit
\* of unnamed/part_000: while (!limitHit()) doStepBlocking(HOME_STEP_US);
HomeApproach_noTimeout ==
    /\ hm.pc \in {"approach1", "approach2"}
    /\ LET k == IF hm.pc = "approach1" THEN 1 ELSE 2
       IN  \E hit \in BOOLEAN :
             IF hit
             THEN hm' = [hm EXCEPT !.pc = IF k = 1 THEN "backoff1" ELSE "backoff2",
                                   !.i = 0]
             ELSE hm' = [hm EXCEPT !.toward[k] = @ + 1, !.now = Tick(@),
                                   !.waited = @ + 1]
    /\ UNCHANGED <<cofVars, pc, convVars, csv, rr, mv, btn, rfid, g_motionActive,
                   taskVars>>

\* The approach written as a do-while loop: the step is made before the
\* switch is looked at again, so one more step follows the closing.
HomeApproach_stepOnHit ==
    /\ hm.pc \in {"approach1", "approach2"}
    /\ LET k == IF hm.pc = "approach1" THEN 1 ELSE 2
       IN  \E hit \in BOOLEAN :
             IF hit
             THEN /\ hm' = [hm EXCEPT !.pc = IF k = 1 THEN "backoff1" ELSE "backoff2",
                                      !.i = 0, !.toward[k] = @ + 1, !.now = Tick(@)]
                  /\ UNCHANGED g_motionActive
             ELSE IF Elapsed(hm.now, hm.startTime) > HomingTimeoutTicks(hm.fn)
             THEN /\ hm' = GivenUp(hm, IF k = 1 THEN "first" ELSE "second")
                  /\ g_motionActive' = FALSE
             ELSE /\ hm' = [hm EXCEPT !.toward[k] = @ + 1, !.now = Tick(@),
                                      !.waited = @ + 1]
                  /\ UNCHANGED g_motionActive
    /\ UNCHANGED <<cofVars, pc, convVars, csv, rr, mv, btn, rfid, taskVars>>

\* One test of "while (!limitHit())" in the first or second approach and
\* what follows it: the loop is left when the switch is closed; else the
\* homing gives up when millis() - startTime > HOMING_TIMEOUT_MS; else one
\* doStepBlocking(HOME_STEP_US) toward the limit.
HomeApproach ==
    /\ hm.pc \in {"approach1", "approach2"}
    /\ LET k == IF hm.pc = "approach1" THEN 1 ELSE 2
       IN  \E hit \in BOOLEAN :
             IF hit
             THEN /\ hm' = [hm EXCEPT !.pc = IF k = 1 THEN "backoff1" ELSE "backoff2",
                                      !.i = 0]
                  /\ UNCHANGED g_motionActive
             ELSE IF Elapsed(hm.now, hm.startTime) > HomingTimeoutTicks(hm.fn)
             THEN /\ hm' = GivenUp(hm, IF k = 1 THEN "first" ELSE "second")
                  /\ g_motionActive' = FALSE
             ELSE /\ hm' = [hm EXCEPT !.toward[k] = @ + 1, !.now = Tick(@),
                                      !.waited = @ + 1]
                  /\ UNCHANGED g_motionActive
    /\ UNCHANGED <<cofVars, pc, convVars, csv, rr, mv, btn, rfid, taskVars>>

\* One doStepBlocking of a back-off loop, away from the limit.
HomeBackoff ==
    /\ hm.pc \in {"backoff1", "backoff2"}
    /\ LET k == IF hm.pc = "backoff1" THEN 1 ELSE 2
           n == IF k = 1 THEN BACKOFF_STEPS ELSE BACKOFF_STEPS \div 2
       IN  /\ hm.i < n
           /\ hm' = [hm EXCEPT !.away[k] = @ + 1, !.i = @ + 1, !.now = Tick(@)]
    /\ UNCHANGED <<cofVars, pc, convVars, csv, rr, mv, btn, rfid, g_motionActive,
                   taskVars>>

\* After the first back-off: setDir(DIR_HOME_TOWARD_LIMIT), startTime =
\* millis().  After the final one: stepperEnable(false), g_motionActive =
\* false, and the homing returns (true from executeHome).
HomeBackoffDone ==
    /\ \/ /\ hm.pc = "backoff1" /\ hm.i = BACKOFF_STEPS
          /\ hm' = [hm EXCEPT !.pc = "approach2", !.startTime = hm.now, !.waited = 0]
          /\ UNCHANGED g_motionActive
       \/ /\ hm.pc = "backoff2" /\ hm.i = BACKOFF_STEPS \div 2
          /\ hm' = [hm EXCEPT !.pc = "returned", !.enabled = FALSE, !.result = TRUE]
          /\ g_motionActive' = FALSE
    /\ UNCHANGED <<cofVars, pc, convVars, csv, rr, mv, btn, rfid, taskVars>>

NextHome == CallHome \/ HomeApproach \/ HomeBackoff \/ HomeBackoffDone

SpecHome == InitHome /\ [][NextHome]_vars

\* The processor keeps executing the homing it has entered.
SpecHomeLive == SpecHome /\ WF_vars(NextHome)

----------------------------------------------------------------------------

(* Buttons (Friction-Tester.ino, unnamed/part_000): readButton polled at    *)
(* any times on a pin that changes at any times.  Time is in ticks on the   *)
(* wrapping clock; DEBOUNCE_MS and LONG_PRESS_MS are 30 and 1200 in the     *)
(* source and keep their order here.                                        *)

DEBOUNCE_MS == 1
LONG_PRESS_MS == 3

\* INPUT_PULLUP: LOW when pressed.  Btn.last is a bool: true is HIGH.
LOW == FALSE
HIGH == TRUE

\* Btn btnStart{BTN_START, true, 0, 0, false};
NewBtn == [last |-> HIGH, lastChange |-> 0, downAt |-> 0, longSent |-> FALSE]

\* readButton that leaves longSent alone when it reports the long press.
readButton_longRepeats(b, cur, now) ==
    LET accepted == cur # b.last /\ Elapsed(now, b.lastChange) > DEBOUNCE_MS
        held == Elapsed(now, b.downAt)
        b1 == IF ~accepted THEN b
              ELSE IF cur = LOW
              THEN [b EXCEPT !.last = cur, !.lastChange = now, !.downAt = now,
                             !.longSent = FALSE]
              ELSE [b EXCEPT !.last = cur, !.lastChange = now]
        shortPress == /\ accepted /\ cur # LOW
                      /\ ~b.longSent /\ held >= DEBOUNCE_MS /\ held < LONG_PRESS_MS
        longPress == /\ b1.last = LOW /\ ~b1.longSent
                     /\ Elapsed(now, b1.downAt) >= LONG_PRESS_MS
    IN  [b |-> b1, accepted |-> accepted, shortPress |-> shortPress,
         longPress |-> longPress]

\* bool readButton(Btn& b, bool& shortPress, bool& longPress) with cur the
\* level digitalRead returned and now the value of millis(): the struct as
\* the call leaves it, whether the call took cur for a change of level, and
\* the two events.
readButton(b, cur, now) ==
    LET accepted == cur # b.last /\ Elapsed(now, b.lastChange) > DEBOUNCE_MS
        held == Elapsed(now, b.downAt)
        b1 == IF ~accepted THEN b
              ELSE IF cur = LOW
              THEN [b EXCEPT !.last = cur, !.lastChange = now, !.downAt = now,
                             !.longSent = FALSE]
              ELSE [b EXCEPT !.last = cur, !.lastChange = now]
        shortPress == /\ accepted /\ cur # LOW
                      /\ ~b.longSent /\ held >= DEBOUNCE_MS /\ held < LONG_PRESS_MS
        longPress == /\ b1.last = LOW /\ ~b1.longSent
                     /\ Elapsed(now, b1.downAt) >= LONG_PRESS_MS
    IN  [b |-> IF longPress THEN [b1 EXCEPT !.longSent = TRUE] ELSE b1,
         accepted |-> accepted, shortPress |-> shortPress, longPress |-> longPress]

\* No call made yet.
NoCall == [made |-> FALSE, cur |-> HIGH, accepted |-> FALSE, shortPress |-> FALSE,
           longPress |-> FALSE, since |-> 0, wasDown |-> FALSE]

\* The events of one press, from the call that took the button for pressed:
\* the long and short presses reported, and the calls made with the button
\* still taken for pressed LONG_PRESS_MS or more after that call (2: two or
\* more).
NoPress == [longs |-> 0, shorts |-> 0, lateCalls |-> 0]

\* setup() done, at millis() = 0: the button is released or held down.
\* since is the time passed since the last change of level a call accepted
\* (since the start before the first).
InitButton ==
    /\ \E pin \in BOOLEAN :
         btn = [pc |-> "polling", pin |-> pin, now |-> 0, b |-> NewBtn, since |-> 0,
                press |-> NoPress, call |-> NoCall]
    /\ hm = NoHome
    /\ rfid = NoRfid
    /\ pc = "idle"
    /\ CofUnused
    /\ ConvUnused
    /\ csv = <<>>
    /\ rr = NoRun
    /\ mv = NoMove
    /\ DualUnused

\* One tick passes.  Times since the last accepted change stay below one
\* turn of the clock.
ButtonTick ==
    /\ btn.pc = "polling"
    /\ btn.since + 1 < ClockModulus
    /\ btn' = [btn EXCEPT !.now = Tick(@), !.since = @ + 1]
    /\ UNCHANGED <<cofVars, pc, convVars, csv, rr, mv, hm, rfid, dualVars>>

\* The pin changes its level: pressed, released, or a bounce.
PinChange ==
    /\ btn.pc = "polling"
    /\ btn' = [btn EXCEPT !.pin = ~@]
    /\ UNCHANGED <<cofVars, pc, convVars, csv, rr, mv, hm, rfid, dualVars>>

\* One call of readButton.
ReadButton ==
    /\ btn.pc = "polling"
    /\ LET r == readButton(btn.b, btn.pin, btn.now)
           since == IF r.accepted THEN 0 ELSE btn.since
           press0 == IF r.accepted /\ btn.pin = LOW THEN NoPress ELSE btn.press
           late == r.b.last = LOW /\ since >= LONG_PRESS_MS
       IN  btn' = [btn EXCEPT
                     !.b = r.b,
                     !.since = since,
                     !.press = [longs |-> press0.longs + (IF r.longPress THEN 1 ELSE 0),
                                shorts |-> press0.shorts + (IF r.shortPress THEN 1 ELSE 0),
                                lateCalls |-> IF late /\ press0.lateCalls < 2
                                              THEN press0.lateCalls + 1
                                              ELSE press0.lateCalls],
                     !.call = [made |-> TRUE, cur |-> btn.pin, accepted |-> r.accepted,
                               shortPress |-> r.shortPress, longPress |-> r.longPress,
                               since |-> btn.since, wasDown |-> btn.b.last = LOW]]
    /\ UNCHANGED <<cofVars, pc, convVars, csv, rr, mv, hm, rfid, dualVars>>

NextButton == ButtonTick \/ PinChange \/ ReadButton

SpecButton == InitButton /\ [][NextButton]_vars

----------------------------------------------------------------------------

(* writeToRFID (Friction-Tester.ino): up to MAX_RETRIES attempts, each a    *)
(* polling loop of at most TAG_WAIT_TIMEOUT, with the abort by holding      *)
(* START.  Time is in ticks on the wrapping clock: the 250 ms between       *)
(* polls, the 2000 ms of the abort hold and the 30000 ms of                 *)
(* TAG_WAIT_TIMEOUT keep their order.  A delay(10) in the model stands for  *)
(* the delays of one tick.                                                  *)

\* const int MAX_RETRIES = 5;
MAX_RETRIES == 5
\* const unsigned long TAG_WAIT_TIMEOUT = 30000, in ticks
TAG_WAIT_TIMEOUT == 3
\* "Poll for tag every 250ms", in ticks
PollInterval == 1
\* "button hold 2+ seconds", in ticks
AbortHold == 2

\* PaddleDNA::AccumulateResult
AccumulateErrors == {"ReadError", "WriteError", "InvalidPayload", "CryptoError"}
AccumulateResults == {"Success", "NoTag", "TagFull"} \cup AccumulateErrors

\* The clock of writeToRFID after k more ticks.
RfidTicks(r, k) ==
    [r EXCEPT !.now = (@ + k) % ClockModulus, !.sinceAttempt = @ + k,
              !.sinceHold = @ + k, !.sincePoll = IF r.polled THEN @ + k ELSE @]

InitRfid ==
    /\ rfid \in {[NoRfid EXCEPT !.now = t] : t \in 0..(ClockModulus - 1)}
    /\ hm = NoHome
    /\ btn = NoButton
    /\ pc = "idle"
    /\ CofUnused
    /\ ConvUnused
    /\ csv = <<>>
    /\ rr = NoRun
    /\ mv = NoMove
    /\ DualUnused

\* writeToRFID is entered: attemptNumber = 0.
CallWriteToRFID ==
    /\ rfid.pc = "idle"
    /\ rfid' = [rfid EXCEPT !.pc = "attempt", !.attemptNumber = 0]
    /\ UNCHANGED <<cofVars, pc, convVars, csv, rr, mv, hm, btn, dualVars>>

\* while (attemptNumber < MAX_RETRIES): a new attempt starts, or all
\* retries are exhausted and writeToRFID returns false.
RfidAttempt ==
    /\ rfid.pc = "attempt"
    /\ rfid' = IF rfid.attemptNumber < MAX_RETRIES
               THEN [rfid EXCEPT !.pc = "poll", !.attemptStartTime = rfid.now,
                                 !.lastPollTime = 0, !.last = "none",
                                 !.sinceAttempt = 0, !.sincePoll = 0,
                                 !.polled = FALSE]
               ELSE [rfid EXCEPT !.pc = "returned", !.result = FALSE, !.last = "none"]
    /\ UNCHANGED <<cofVars, pc, convVars, csv, rr, mv, hm, btn, dualVars>>

\* while (millis() - attemptStartTime < TAG_WAIT_TIMEOUT): on the timeout
\* the attempt is counted; else the abort check reads BTN_START.
RfidPoll ==
    /\ rfid.pc = "poll"
    /\ IF Elapsed(rfid.now, rfid.attemptStartTime) < TAG_WAIT_TIMEOUT
       THEN \E pressed \in BOOLEAN :
              rfid' = IF pressed
                      THEN [rfid EXCEPT !.pc = "hold", !.holdStart = rfid.now,
                                        !.sinceHold = 0, !.last = "none"]
                      ELSE [rfid EXCEPT !.pc = "gate", !.last = "none"]
       ELSE rfid' = [rfid EXCEPT !.pc = "attempt", !.attemptNumber = @ + 1,
                                 !.timeouts = @ + 1, !.last = "none"]
    /\ UNCHANGED <<cofVars, pc, convVars, csv, rr, mv, hm, btn, dualVars>>

\* The hold loop: delay(10) while START is down and 2000 ms have not
\* passed; then "Aborted" and return false if they have, else on.
RfidHold ==
    /\ rfid.pc = "hold"
    /\ \E pressed \in BOOLEAN :
         rfid' = IF pressed /\ Elapsed(rfid.now, rfid.holdStart) < AbortHold
                 THEN RfidTicks(rfid, 1)
                 ELSE IF Elapsed(rfid.now, rfid.holdStart) >= AbortHold
                 THEN [rfid EXCEPT !.pc = "returned", !.aborted = TRUE,
                                   !.result = FALSE]
                 ELSE [rfid EXCEPT !.pc = "gate"]
    /\ UNCHANGED <<cofVars, pc, convVars, csv, rr, mv, hm, btn, dualVars>>

\* The switch with NoTag among the errors that count an attempt.
AfterAccumulate_noTagCounts(r, res) ==
    IF res = "Success"
    THEN [r EXCEPT !.pc = "returned", !.result = TRUE, !.successes = @ + 1,
                   !.last = res]
    ELSE IF res = "TagFull"
    THEN [r EXCEPT !.pc = "returned", !.result = FALSE, !.tagFull = TRUE,
                   !.last = res]
    ELSE [r EXCEPT !.pc = "attempt", !.attemptNumber = @ + 1,
                   !.errors = IF res = "NoTag" THEN @ ELSE @ + 1,
                   !.last = res]

\* What the switch on the result of accumulate does.
AfterAccumulate(r, res) ==
    IF res = "Success"
    THEN [r EXCEPT !.pc = "returned", !.result = TRUE, !.successes = @ + 1,
                   !.last = res]
    ELSE IF res = "NoTag" THEN [r EXCEPT !.pc = "poll", !.last = res]
    ELSE IF res = "TagFull"
    THEN [r EXCEPT !.pc = "returned", !.result = FALSE, !.tagFull = TRUE,
                   !.last = res]
    ELSE [r EXCEPT !.pc = "attempt", !.attemptNumber = @ + 1, !.errors = @ + 1,
                   !.last = res]

\* "Poll for tag every 250ms": delay(10) and continue when the last poll is
\* less than 250 ms old; else lastPollTime = millis(), accumulate (which
\* may take a tick) and the switch on its result.
RfidGate ==
    /\ rfid.pc = "gate"
    /\ IF Elapsed(rfid.now, rfid.lastPollTime) < PollInterval
       THEN rfid' = [RfidTicks(rfid, 1) EXCEPT !.pc = "poll"]
       ELSE \E res \in AccumulateResults, took \in 0..1 :
              rfid' = AfterAccumulate(
                          RfidTicks([rfid EXCEPT !.lastPollTime = rfid.now,
                                                 !.polled = TRUE, !.sincePoll = 0],
                                    took),
                          res)
    /\ UNCHANGED <<cofVars, pc, convVars, csv, rr, mv, hm, btn, dualVars>>

NextRfid == CallWriteToRFID \/ RfidAttempt \/ RfidPoll \/ RfidHold \/ RfidGate

SpecRfid == InitRfid /\ [][NextRfid]_vars

\* The processor keeps executing writeToRFID once it is entered.
SpecRfidLive == SpecRfid /\ WF_vars(NextRfid)

----------------------------------------------------------------------------

(* The test harness around calculateCOF: two collected passes, one call. *)

Init ==
    /\ \E p \in PassPairs : fwdSamples = p[1] /\ revSamples = p[2]
    /\ normalForceLb = RInt(0)
    /\ trimFraction = RInt(0)
    /\ avgFn = "none"
    /\ result = ZeroResult
    /\ serial = <<>>
    /\ pairs = <<>>
    /\ avgArgs = <<>>
    /\ avgLeft = <<>>
    /\ mallocLog = <<>>
    /\ freeLog = <<>>
    /\ samples = <<>>
    /\ avgOut = NoOut
    /\ pc = "idle"
    /\ ConvUnused
    /\ csv = <<>>
    /\ rr = NoRun
    /\ mv = NoMove
    /\ CtlUnused
    /\ DualUnused

CallCalculateCOF ==
    /\ pc = "idle"
    /\ \E n \in NormalForces, t \in TrimFractions, f \in AveragingFns, heapAvail \in 0..2 :
         LET out == calculateCOF(fwdSamples, Len(fwdSamples), revSamples,
                                 Len(revSamples), n, t, f, heapAvail)
         IN  /\ normalForceLb' = n
             /\ trimFraction' = t
             /\ avgFn' = f
             /\ result' = out.result
             /\ serial' = out.serial
             /\ pairs' = out.pairs
             /\ avgArgs' = out.avgArgs
             /\ avgLeft' = out.avgLeft
             /\ mallocLog' = out.mallocs
             /\ freeLog' = out.frees
             /\ fwdSamples' = out.fwdAfter
             /\ revSamples' = out.revAfter
    /\ pc' = "done"
    /\ UNCHANGED <<samples, avgOut, convVars, csv, rr, mv, ctlVars, dualVars>>

Next == CallCalculateCOF

Spec == Init /\ [][Next]_vars

----------------------------------------------------------------------------
(* dumpPairedDataCSV, called on the two collected passes. *)

\* Serial.println(text)
TextLine(text) == [kind |-> "text", text |-> text, fields |-> <<>>]

\* Serial.print(x, 4) of a float: the sign, then |x| rounded half up to four
\* decimals, given here as the sign and the count of ten-thousandths.
PrintFloat4(x) ==
    [minus |-> x[1] < 0,
     tenThousandths |-> (2 * Abs(x[1]) * 10000 + x[2]) \div (2 * x[2])]

\* The row with pos_index counted from one.
CsvRow_oneBased(i, fwd, rev) ==
    [kind |-> "row", text |-> "",
     fields |-> <<i + 1, PrintFloat4(fwd), PrintFloat4(rev),
                  PrintFloat4(PairFriction(fwd, rev)), PrintFloat4(PairBias(fwd, rev))>>]

\* One row: i , fwd , rev , friction , bias
CsvRow(i, fwd, rev) ==
    [kind |-> "row", text |-> "",
     fields |-> <<i, PrintFloat4(fwd), PrintFloat4(rev),
                  PrintFloat4(PairFriction(fwd, rev)), PrintFloat4(PairBias(fwd, rev))>>]

CsvStart == TextLine("---PAIRED_CSV_START---")
CsvEnd == TextLine("---PAIRED_CSV_END---")
CsvHeader == TextLine("pos_index,fwd_force,rev_force,friction,bias")

dumpPairedDataCSV(fwd, fwdCount, rev, revCount, trim) ==
    LET tp == computeTrimParams(fwdCount, revCount, trim)
    IN  IF ~tp.ok
        THEN <<CsvStart, TextLine("ERROR: no valid pairs"), CsvEnd>>
        ELSE <<CsvStart, CsvHeader>>
             \o [k \in 1..tp.pairedCount |->
                    CsvRow(k - 1,
                           fwd[PairFwdIndex(tp.fwdStart, k - 1) + 1],
                           rev[PairRevIndex(tp.revStart, tp.pairedCount, k - 1) + 1])]
             \o <<CsvEnd>>

CallDumpPairedDataCSV ==
    /\ pc = "idle"
    /\ \E t \in TrimFractions :
         /\ trimFraction' = t
         /\ csv' = dumpPairedDataCSV(fwdSamples, Len(fwdSamples),
                                     revSamples, Len(revSamples), t)
    /\ pc' = "done"
    /\ UNCHANGED <<fwdSamples, revSamples, normalForceLb, avgFn, result, serial,
                   pairs, avgArgs, avgLeft, mallocLog, freeLog, samples, avgOut,
                   convVars, rr, mv,
                   ctlVars, dualVars>>

NextCsv == CallDumpPairedDataCSV

SpecCsv == Init /\ [][NextCsv]_vars

----------------------------------------------------------------------------
(* runTest on the two collected passes. *)

RunTestDualCore ==
    /\ pc = "idle"
    /\ \E heapOk \in BOOLEAN :
         LET rev == Negated(revSamples)
         IN  rr' = [variant |-> "dual-core", fwd |-> fwdSamples, rev |-> rev,
                    out |-> <<runTestDualCore(fwdSamples, Len(fwdSamples),
                                              rev, Len(rev), heapOk)>>]
    /\ pc' = "done"
    /\ UNCHANGED <<cofVars, convVars, csv, mv, ctlVars, dualVars>>

RunTestSingleCore ==
    /\ pc = "idle"
    /\ \E fwdAllocOk \in BOOLEAN, revAllocOk \in BOOLEAN, heapOk \in BOOLEAN :
         LET rev == Negated(revSamples)
             fwdResult == MeasureResultOf(fwdSamples, fwdAllocOk, heapOk)
             revResult == MeasureResultOf(rev, revAllocOk, heapOk)
         IN  rr' = [variant |-> "single-core",
                    fwd |-> IF fwdAllocOk THEN fwdSamples ELSE <<>>,
                    rev |-> IF revAllocOk THEN rev ELSE <<>>,
                    out |-> <<runTestSingleCore(fwdResult, revResult)>>]
    /\ pc' = "done"
    /\ UNCHANGED <<cofVars, convVars, csv, mv, ctlVars, dualVars>>

NextRun == RunTestDualCore \/ RunTestSingleCore

SpecRun == Init /\ [][NextRun]_vars

\* The dual-core runTest on passes of up to MaxPassCount samples, enough for
\* its trim (a twelfth of the forward count) to take samples away.
InitTrim ==
    /\ \E n \in 0..MaxPassCount, m \in 0..MaxPassCount :
         /\ fwdSamples = LongBuffer("zig", n)
         /\ revSamples = LongBuffer("flat", m)
    /\ normalForceLb = RInt(0)
    /\ trimFraction = RInt(0)
    /\ avgFn = "none"
    /\ result = ZeroResult
    /\ serial = <<>>
    /\ pairs = <<>>
    /\ avgArgs = <<>>
    /\ avgLeft = <<>>
    /\ mallocLog = <<>>
    /\ freeLog = <<>>
    /\ samples = <<>>
    /\ avgOut = NoOut
    /\ pc = "idle"
    /\ ConvUnused
    /\ csv = <<>>
    /\ rr = NoRun
    /\ mv = NoMove
    /\ CtlUnused
    /\ DualUnused

NextTrim == RunTestDualCore

SpecTrim == InitTrim /\ [][NextTrim]_vars

----------------------------------------------------------------------------
(* The averaging strategies called directly. *)

InitAvg ==
    /\ samples \in AvgInputs
    /\ avgOut = NoOut
    /\ fwdSamples = <<>>
    /\ revSamples = <<>>
    /\ normalForceLb = RInt(0)
    /\ trimFraction = RInt(0)
    /\ avgFn = "none"
    /\ result = ZeroResult
    /\ serial = <<>>
    /\ pairs = <<>>
    /\ avgArgs = <<>>
    /\ avgLeft = <<>>
    /\ mallocLog = <<>>
    /\ freeLog = <<>>
    /\ pc = "idle"
    /\ ConvUnused
    /\ csv = <<>>
    /\ rr = NoRun
    /\ mv = NoMove
    /\ CtlUnused
    /\ DualUnused

CallAvg(fn) ==
    /\ pc = "idle"
    /\ \E heapOk \in BOOLEAN :
         LET out == CallAvgFn(fn, samples, Len(samples), heapOk)
         IN  /\ avgOut' = [fn |-> fn, value |-> out.value, mallocs |-> out.mallocs,
                            frees |-> out.frees, serial |-> out.serial]
             /\ samples' = out.after
    /\ pc' = "done"
    /\ UNCHANGED <<fwdSamples, revSamples, normalForceLb, trimFraction, avgFn,
                   result, serial, pairs, avgArgs, avgLeft, mallocLog, freeLog,
                   convVars, csv, rr,
                   mv, ctlVars, dualVars>>

CallAvgPercentileBand == CallAvg("avgPercentileBand")

CallAvgWithinOneStdDev == CallAvg("avgWithinOneStdDev")

NextAvg == CallAvgPercentileBand \/ CallAvgWithinOneStdDev

SpecAvg == InitAvg /\ [][NextAvg]_vars

----------------------------------------------------------------------------
(* Vocabulary of the properties *)

FwdCount == Len(fwdSamples)
RevCount == Len(revSamples)

\* floor(count * trimFraction) for a non-negative fraction
FloorTrim(count) == (count * trimFraction[1]) \div trimFraction[2]
FwdTrim == FloorTrim(FwdCount)
RevTrim == FloorTrim(RevCount)
FwdTrimmed == FwdCount - 2 * FwdTrim
RevTrimmed == RevCount - 2 * RevTrim
MinTrimmed == IF FwdTrimmed <= RevTrimmed THEN FwdTrimmed ELSE RevTrimmed

Returned == pc = "done" /\ avgFn \in AveragingFns
TrimInRange == RLeq(RInt(0), trimFraction) /\ RLess(trimFraction, <<1, 2>>)

\* The averaging strategy was invoked (a result with pairs was assembled).
Averaged == avgArgs # <<>>
\* calculateCOF returned its failure value without averaging.
Failed == result = ZeroResult /\ avgArgs = <<>>
PairedAllocFailed == mallocLog = <<FALSE>>
SortAllocFailed == mallocLog = <<TRUE, FALSE>>

\* The number of successive allocations that succeeded in the observed call.
HeapSeen == IF PairedAllocFailed THEN 0 ELSE IF SortAllocFailed THEN 1 ELSE 2

----------------------------------------------------------------------------
----------------------------------------------------------------------------
(* C2: pair i (0-based) is built from the forward sample at index           *)
(* fwdTrim + i and the reverse sample at index revTrim + (pairCount - 1 -   *)
(* i); every forward index in [fwdTrim, fwdTrim + pairCount) and every      *)
(* reverse index in [revTrim, revTrim + pairCount) is used in exactly one   *)
(* pair.                                                                    *)
C2_PairIndices ==
    (Returned /\ Averaged) =>
        LET pairCount == result.pairedCount
        IN  /\ Len(pairs) = pairCount
            /\ \A i \in 0..(pairCount - 1) :
                 /\ pairs[i + 1] = <<FwdTrim + i, RevTrim + (pairCount - 1 - i)>>
                 /\ avgArgs[1][i + 1] =
                      RDiv(RAbs(RSub(fwdSamples[FwdTrim + i + 1],
                                     revSamples[RevTrim + (pairCount - 1 - i) + 1])),
                           RInt(2))
            /\ \A k \in FwdTrim..(FwdTrim + pairCount - 1) :
                 Cardinality({i \in 1..pairCount : pairs[i][1] = k}) = 1
            /\ \A k \in RevTrim..(RevTrim + pairCount - 1) :
                 Cardinality({i \in 1..pairCount : pairs[i][2] = k}) = 1

C2_Witness ==
    /\ Returned /\ trimFraction = <<1, 4>>
    /\ FwdCount = 9 /\ RevCount = 11
    /\ pairs = <<<<2, 6>>, <<3, 5>>, <<4, 4>>, <<5, 3>>, <<6, 2>>>>

----------------------------------------------------------------------------
(* C3 as stated: the reverse sample paired with the i-th forward sample of  *)
(* the forward trimmed window is the i-th sample counted from the end of    *)
(* the reverse trimmed window, index revCount - revTrim - 1 - i, for all    *)
(* count combinations.  Refuted when the reverse trimmed window is the      *)
(* longer one.                                                              *)
C3_ReverseFromWindowEnd ==
    (Returned /\ Averaged) =>
        \A i \in 0..(Len(pairs) - 1) :
            pairs[i + 1][2] = RevCount - RevTrim - 1 - i

(* C3 amended: the reverse sample paired with the i-th forward sample is    *)
(* the i-th sample counted from the end of the first pairCount samples of   *)
(* the reverse trimmed window, index revTrim + pairCount - 1 - i.  That is  *)
(* index revCount - revTrim - 1 - i exactly when the reverse trimmed window *)
(* is not longer than the forward one; when it is longer by d samples, the  *)
(* index is revCount - revTrim - 1 - i - d and the last d samples of the    *)
(* reverse window are paired with nothing.                                  *)
C3_ReverseFromPairedEnd ==
    (Returned /\ Averaged) =>
        LET pairCount == Len(pairs)
            d == IF RevTrimmed > FwdTrimmed THEN RevTrimmed - FwdTrimmed ELSE 0
        IN  /\ \A i \in 0..(pairCount - 1) :
                 /\ pairs[i + 1][1] = FwdTrim + i
                 /\ pairs[i + 1][2] = (RevTrim + pairCount - 1) - i
                 /\ pairs[i + 1][2] = RevCount - RevTrim - 1 - i - d
            /\ \A i \in 1..pairCount, k \in 1..d :
                 pairs[i][2] # RevCount - RevTrim - k

C3_Witness ==
    /\ Returned /\ trimFraction = <<1, 4>>
    /\ FwdCount = 5 /\ RevCount = 11
    /\ pairs = <<<<1, 4>>, <<2, 3>>, <<3, 2>>>>

----------------------------------------------------------------------------
(* C4: every pair's friction value is |fwd - rev| / 2 and its bias is       *)
(* (fwd + rev) / 2, so adding one and the same constant offset to every     *)
(* forward and every reverse sample leaves every paired friction value,     *)
(* avgForceLb and cof unchanged (and moves avgBias by the offset); with     *)
(* fwd = 5 and rev = 3 at every position each friction value is 1 and       *)
(* avgBias is 4.                                                            *)

\* Constant offsets (lb) added to both passes.
Offsets == {RInt(-4), RInt(1), <<5, 2>>}

Shifted(s, c) == [i \in 1..Len(s) |-> RAdd(s[i], c)] \o <<>>

AllEqual(s, v) == \A i \in 1..Len(s) : s[i] = v

C4_BiasCancellation ==
    (Returned /\ Averaged) =>
        LET pairCount == Len(pairs)
            f(i) == fwdSamples[pairs[i][1] + 1]
            r(i) == revSamples[pairs[i][2] + 1]
        IN  /\ \A i \in 1..pairCount :
                 avgArgs[1][i] = RDiv(RAbs(RSub(f(i), r(i))), RInt(2))
            /\ RMul(result.avgBias, RInt(2 * pairCount)) =
                 SumRange([i \in 1..pairCount |-> RAdd(f(i), r(i))] \o <<>>, 0, pairCount)
            /\ \A c \in Offsets :
                 LET o == calculateCOF(Shifted(fwdSamples, c), FwdCount,
                                       Shifted(revSamples, c), RevCount,
                                       normalForceLb, trimFraction, avgFn, HeapSeen)
                 IN  /\ o.avgArgs = avgArgs
                     /\ o.result.avgForceLb = result.avgForceLb
                     /\ o.result.cof = result.cof
                     /\ o.result.avgBias = RAdd(result.avgBias, c)
            /\ (AllEqual(fwdSamples, RInt(5)) /\ AllEqual(revSamples, RInt(3))) =>
                 /\ AllEqual(avgArgs[1], RInt(1))
                 /\ result.avgBias = RInt(4)

C4_Witness ==
    /\ Returned
    /\ fwdSamples = <<RInt(5), RInt(5)>> /\ revSamples = <<RInt(3), RInt(3)>>
    /\ trimFraction = RInt(0)
    /\ avgArgs = <<<<RInt(1), RInt(1)>>>>
    /\ result.avgBias = RInt(4) /\ result.avgForceLb = RInt(1)

----------------------------------------------------------------------------
(* C5: when trimming leaves zero or fewer samples in either pass,           *)
(* calculateCOF fails cleanly: it returns without invoking the averaging    *)
(* strategy, without allocating and without reading any sample, no COF is   *)
(* produced, and the returned value (pairedCount = 0) differs from every    *)
(* successful result, which always has pairedCount >= 1.                    *)
C5_EmptyPairingFails ==
    /\ (Returned /\ RLeq(RInt(0), trimFraction) /\ (FwdTrimmed <= 0 \/ RevTrimmed <= 0)) =>
         /\ avgArgs = <<>>
         /\ mallocLog = <<>>
         /\ pairs = <<>>
         /\ result = ZeroResult
         /\ serial = <<"ERROR: No valid pairs after trimming">>
    /\ (Returned /\ Averaged) =>
         /\ result.pairedCount >= 1
         /\ result # ZeroResult
         /\ FwdTrimmed > 0 /\ RevTrimmed > 0

C5_Witness ==
    /\ Returned /\ trimFraction = <<1, 2>>
    /\ FwdCount = 11 /\ RevCount = 10
    /\ FwdTrimmed = 1 /\ RevTrimmed = 0
    /\ result = ZeroResult /\ mallocLog = <<>>

----------------------------------------------------------------------------
(* C6 as stated: with trimFraction = 0.5 the trim removes all samples of a  *)
(* pass, so calculateCOF with counts 5 and 5 (and likewise any other        *)
(* counts) returns a Failure, never a result that contains pairs.  Refuted  *)
(* by odd counts: floor(5 * 0.5) = 2 leaves 5 - 4 = 1 sample.               *)
C6_HalfTrimFails ==
    (Returned /\ trimFraction = <<1, 2>>) =>
        /\ ~Averaged
        /\ pairs = <<>>
        /\ result.pairedCount = 0

(* C6 amended: with trimFraction = 0.5, floor(count / 2) samples are        *)
(* trimmed from each end of a pass, which removes all its samples exactly   *)
(* when the count is even.  calculateCOF returns the "no valid pairs"       *)
(* failure if and only if the forward or the reverse count is even; when    *)
(* both are odd (as for counts 5 and 5) the middle sample of each pass      *)
(* survives and, the buffer being allocated, the result has pairedCount 1.  *)
C6_HalfTrimKeepsMiddleOfOddCounts ==
    (Returned /\ trimFraction = <<1, 2>>) =>
        IF FwdCount % 2 = 1 /\ RevCount % 2 = 1
        THEN /\ serial # <<"ERROR: No valid pairs after trimming">>
             /\ ~PairedAllocFailed =>
                  /\ result.pairedCount = 1
                  /\ pairs = <<<<(FwdCount - 1) \div 2, (RevCount - 1) \div 2>>>>
        ELSE /\ Failed
             /\ serial = <<"ERROR: No valid pairs after trimming">>

C6_Witness ==
    /\ Returned /\ trimFraction = <<1, 2>>
    /\ FwdCount = 5 /\ RevCount = 5
    /\ result.pairedCount = 1 /\ pairs = <<<<2, 2>>>>

----------------------------------------------------------------------------
(* C7: on a successful calculateCOF, cof = avgForce / normalForceLb when    *)
(* normalForceLb > 0 and cof = 0 when normalForceLb <= 0, where avgForce is *)
(* the averaging strategy's result over the paired friction values; those   *)
(* values are non-negative and cof >= 0.                                    *)
C7_CofAssembly ==
    (Returned /\ Averaged) =>
        /\ \A i \in 1..Len(avgArgs[1]) : RLeq(RInt(0), avgArgs[1][i])
        /\ result.avgForceLb =
             CallAvgFn(avgFn, avgArgs[1], Len(avgArgs[1]), HeapSeen >= 2).value
        /\ IF normalForceLb[1] > 0
           THEN RMul(result.cof, normalForceLb) = result.avgForceLb
           ELSE result.cof = RInt(0)
        /\ result.cof[2] > 0
        /\ RLeq(RInt(0), result.cof)

C7_Witness ==
    /\ Returned /\ Averaged
    /\ normalForceLb = RInt(2)
    /\ result.avgForceLb = <<5, 2>>
    /\ result.cof = <<5, 4>>

----------------------------------------------------------------------------
(* C8: calculateCOF called with normalForceLb = 0 on otherwise valid inputs *)
(* signals a fault: what the caller can observe (the returned CofResult and *)
(* the lines printed) differs from a successful computation that measured   *)
(* cof = 0 with a positive normal force.                                    *)
C8_ZeroNormalForceSignalsFault ==
    (Returned /\ Averaged /\ normalForceLb = RInt(0)) =>
        \A n \in {x \in NormalForces : x[1] > 0} :
            LET o == calculateCOF(fwdSamples, FwdCount, revSamples, RevCount,
                                  n, trimFraction, avgFn, HeapSeen)
            IN  o.result.cof = RInt(0) => <<o.result, o.serial>> # <<result, serial>>

----------------------------------------------------------------------------
(* C9: if a working-buffer allocation fails (the paired-friction buffer in  *)
(* calculateCOF or the sort buffer in avgPercentileBand), the value         *)
(* calculateCOF returns differs from the EmptyPairing failure value and     *)
(* from every successful result, including one whose friction is genuinely  *)
(* zero.                                                                    *)

\* The results of the calls in which every allocation succeeds and pairs exist.
SuccessResults ==
    {o.result : o \in
        {x \in {calculateCOF(p[1], Len(p[1]), p[2], Len(p[2]), n, t, f, 2) :
                  p \in PassPairs, n \in NormalForces, t \in TrimFractions,
                  f \in AveragingFns} : x.avgArgs # <<>>}}

C9_AllocationFailureDistinct ==
    (Returned /\ (PairedAllocFailed \/ SortAllocFailed)) =>
        /\ result # ZeroResult
        /\ result # calculateCOF(fwdSamples, FwdCount, revSamples, RevCount,
                                 normalForceLb, trimFraction, avgFn, 2).result
        /\ result \notin SuccessResults

----------------------------------------------------------------------------
(* C10: avgPercentileBand equals the reference for every input: for         *)
(* 1 <= count < 10 the arithmetic mean of all values; for count >= 10 the   *)
(* mean of the ascending-sorted values at indices [idx85, idx95) with       *)
(* idx85 = floor(0.85 count), idx95 = floor(0.95 count) and idx85 lowered   *)
(* to idx95 - 1 (not below 0) when idx85 >= idx95; on the sequence 0..99    *)
(* this is the mean of sorted indices 85..94 = 89.5.                        *)

\* s without one occurrence of its largest value.
DropMax(s) ==
    LET i == CHOOSE i \in 1..Len(s) : \A j \in 1..Len(s) : RLeq(s[j], s[i])
    IN  SubSeq(s, 1, i - 1) \o SubSeq(s, i + 1, Len(s))

\* s without its k largest values.
RECURSIVE DropLargest(_, _)
DropLargest(s, k) == IF k = 0 THEN s ELSE DropLargest(DropMax(s), k - 1)

Total(s) == SumRange(s, 0, Len(s))

\* The ascending-sorted values at indices [lo, hi) are what remains of the
\* hi smallest values once the lo smallest are taken away.
PercentileBandRef(s) ==
    LET count == Len(s)
        f85 == (85 * count) \div 100
        idx95 == (95 * count) \div 100
        idx85 == IF f85 >= idx95 THEN (IF idx95 - 1 < 0 THEN 0 ELSE idx95 - 1) ELSE f85
        upTo95 == DropLargest(s, count - idx95)
        upTo85 == DropLargest(upTo95, idx95 - idx85)
    IN  IF count < 10 THEN RDiv(Total(s), RInt(count))
        ELSE RDiv(RSub(Total(upTo95), Total(upTo85)), RInt(idx95 - idx85))

Ramp0to99 == [i \in 1..100 |-> RInt(i - 1)]

PercentileBandReturned == pc = "done" /\ avgOut.fn = "avgPercentileBand"

C10_PercentileBandEqualsReference ==
    (PercentileBandReturned /\ Len(samples) >= 1) =>
        /\ avgOut.value = PercentileBandRef(samples)
        /\ samples = Ramp0to99 => avgOut.value = <<179, 2>>

\* The same with the sort buffer allocated (no failed malloc in the call).
C10_EqualsReferenceWhenAllocated ==
    (PercentileBandReturned /\ Len(samples) >= 1 /\ avgOut.mallocs # <<FALSE>>) =>
        /\ avgOut.value = PercentileBandRef(samples)
        /\ samples = Ramp0to99 => avgOut.value = <<179, 2>>

C10_AllocatedWitness ==
    /\ PercentileBandReturned
    /\ samples = Ramp0to99
    /\ avgOut.mallocs = <<TRUE>> /\ avgOut.value = <<179, 2>>

----------------------------------------------------------------------------
(* C11: for every non-empty input avgWithinOneStdDev returns the mean of    *)
(* exactly the values v with mean - sigma <= v <= mean + sigma, both end    *)
(* points included, mean and sigma being the arithmetic mean and the        *)
(* population standard deviation of all values; on 1, 1, 1, 1, 100 the      *)
(* value 100 is left out and the result is 1.                               *)

SumOfSquares(s) == SumRange([i \in 1..Len(s) |-> RMul(s[i], s[i])] \o <<>>, 0, Len(s))

\* |v - S/n| <= sqrt(Q/n - (S/n)^2) with S the sum and Q the sum of squares
\* of the n values, multiplied out: (n v - S)^2 <= n Q - S^2.
InOneSigmaBand(s, v) ==
    LET n == RInt(Len(s))
        S == Total(s)
        dev == RSub(RMul(n, v), S)
    IN  RLeq(RMul(dev, dev), RSub(RMul(n, SumOfSquares(s)), RMul(S, S)))

OneSigmaIndices(s) == {i \in 1..Len(s) : InOneSigmaBand(s, s[i])}

OneSigmaMeanRef(s) ==
    LET K == OneSigmaIndices(s)
        masked == [i \in 1..Len(s) |-> IF i \in K THEN s[i] ELSE RInt(0)] \o <<>>
    IN  RDiv(Total(masked), RInt(Cardinality(K)))

StdDevReturned == pc = "done" /\ avgOut.fn = "avgWithinOneStdDev"

----------------------------------------------------------------------------
(* C12: called with count == 0, avgPercentileBand and avgWithinOneStdDev    *)
(* both return 0.0, and do so without dividing by zero, without allocating  *)
(* and without reading a sample.                                            *)

\* The value is the number 0 (a division by a zero count gives NaN, written
\* <<0, 0>>), no malloc was performed and nothing was reported.  The array
\* passed is empty, so any read of a sample would be a read out of bounds.
C12_EmptyInputGivesZero ==
    (pc = "done" /\ avgOut.fn \in AveragingFns /\ Len(samples) = 0) =>
        /\ avgOut.value = RInt(0)
        /\ avgOut.mallocs = <<>>
        /\ avgOut.serial = <<>>

C12_Witness ==
    /\ pc = "done" /\ avgOut.fn = "avgWithinOneStdDev"
    /\ samples = <<>>
    /\ avgOut.value = RInt(0) /\ avgOut.mallocs = <<>>

----------------------------------------------------------------------------
(* C19: rawToPounds returns (raw - tareOffset) / calibrationFactor when the *)
(* calibration factor is not zero; when it is zero it returns the sentinel  *)
(* 0 and signals the fault, and performs no division.                       *)

Converted == pc = "done" /\ lbs.called

\* value = (raw - tare) / calibration, said by multiplication; a division by
\* a zero calibration would give an infinity or NaN, <<_, 0>>, not <<0, 1>>.
C19_ConversionOrSentinel ==
    Converted =>
        /\ g_calibration # RInt(0) =>
              /\ RMul(lbs.value, g_calibration) = RInt(lbs.raw - g_tareRaw)
              /\ lbs.serial = <<>>
        /\ g_calibration = RInt(0) =>
              /\ lbs.value = RInt(0)
              /\ lbs.serial = <<"ERROR: Division by zero - g_calibration is 0!">>

C19_Witness ==
    /\ Converted
    /\ g_calibration = RInt(0) /\ lbs.raw # g_tareRaw
    /\ lbs.value = RInt(0) /\ lbs.serial # <<>>

----------------------------------------------------------------------------
(* C20: for an input that yields P pairs the paired CSV export produces     *)
(* exactly P + 1 lines of text: the header line                             *)
(* pos_index,fwd_force,rev_force,friction,bias followed by one row per pair *)
(* in pair order, row i carrying pos_index i; for 3 pairs exactly 4 lines.  *)

\* The input yields pairs: both trimmed windows hold a sample.
Dumped == pc = "done" /\ csv # <<>>
YieldsPairs == FwdTrimmed > 0 /\ RevTrimmed > 0
IsRow(line, i) == line.kind = "row" /\ Len(line.fields) = 5 /\ line.fields[1] = i

\* The lines from the k-th on are the header and P rows in pair order.
HeaderAndRowsAt(k) ==
    /\ Len(csv) >= k + MinTrimmed
    /\ csv[k] = CsvHeader
    /\ \A i \in 0..(MinTrimmed - 1) : IsRow(csv[k + 1 + i], i)

C20_CsvIsHeaderAndRows ==
    (Dumped /\ YieldsPairs) =>
        /\ Len(csv) = MinTrimmed + 1
        /\ HeaderAndRowsAt(1)
        /\ MinTrimmed = 3 => Len(csv) = 4

\* What the code writes: the start marker, the P + 1 lines of CSV text, the
\* end marker; P + 3 lines, 6 for 3 pairs.
C20_CsvBetweenMarkers ==
    (Dumped /\ YieldsPairs) =>
        /\ Len(csv) = MinTrimmed + 3
        /\ csv[1] = CsvStart
        /\ HeaderAndRowsAt(2)
        /\ csv[Len(csv)] = CsvEnd
        /\ MinTrimmed = 3 => Len(SubSeq(csv, 2, Len(csv) - 1)) = 4

C20_Witness ==
    /\ Dumped /\ YieldsPairs /\ MinTrimmed = 3
    /\ Len(csv) = 6 /\ IsRow(csv[5], 2)

----------------------------------------------------------------------------
(* C18: a pass with zero samples is handled by what follows in runTest:     *)
(* with one pass empty and the other not, the reported average friction and *)
(* COF are well-defined values computed from the non-empty pass alone; with *)
(* both empty the result is 0; no undefined value from averaging an empty   *)
(* set (a division by a zero count) reaches the result.                     *)

RunDone == pc = "done" /\ rr.variant # "none"
RunOut == rr.out[1]

\* A number: neither NaN nor an infinity.
IsNumber(x) == x[2] # 0

\* The friction of one pass alone: the mean of the magnitudes of its samples
\* (fewer than 10 samples in the passes looked at here).
PassAlone(s) == RDiv(Total(AbsAll(s)), RInt(Len(s)))

FromPassAlone(s) ==
    /\ IsNumber(RunOut.avgFrictionLb) /\ IsNumber(RunOut.cof)
    /\ RunOut.avgFrictionLb = PassAlone(s)
    /\ RMul(RunOut.cof, NORMAL_FORCE_LB) = PassAlone(s)

C18_EmptyPassHandled ==
    RunDone =>
        /\ (Len(rr.fwd) = 0 /\ Len(rr.rev) \in 1..9) => FromPassAlone(rr.rev)
        /\ (Len(rr.rev) = 0 /\ Len(rr.fwd) \in 1..9) => FromPassAlone(rr.fwd)
        /\ (Len(rr.fwd) = 0 /\ Len(rr.rev) = 0) =>
              RunOut.avgFrictionLb = RInt(0) /\ RunOut.cof = RInt(0)
        /\ IsNumber(RunOut.avgFrictionLb) /\ IsNumber(RunOut.cof)

\* The same of the dual-core variant only.
C18_DualCoreEmptyPassHandled == rr.variant = "dual-core" => C18_EmptyPassHandled

----------------------------------------------------------------------------
(* C13: a sampled move performs exactly N actuator step pulses for a        *)
(* request of N steps, in every execution: the number of steps issued does  *)
(* not depend on sensor readiness, on how many samples were captured, on    *)
(* the sample buffer being full, or on a sample-buffer allocation failure   *)
(* (measureDuringMove and executePureMove).                                 *)

MoveReturned(fn) == mv.fn = fn /\ mv.pc = "returned"

C13_ExactlyNSteps ==
    (MoveReturned("measureDuringMove") \/ MoveReturned("executePureMove")) =>
        mv.pulses = mv.steps

\* The same of the moves whose sample array was allocated.
C13_ExactlyNStepsWhenAllocated == mv.allocOk => C13_ExactlyNSteps

----------------------------------------------------------------------------
(* C14: during a measurement pass the step loop never waits for the force   *)
(* sensor: after each step the readiness of the sensor is queried at most   *)
(* once, a raw value is read only if that query answered ready (at most one *)
(* sample per step), and when it is not ready the loop goes on to the next  *)
(* step pulse directly.                                                     *)

MeasurementLoops == {"measureDuringMove", "measureDuringMoveSum", "runTestMeasuring"}

NeverWaits ==
    /\ mv.queries <= 1
    /\ mv.reads <= 1
    /\ mv.reads <= mv.queries - mv.notReady
    /\ mv.delays = 0

C14_StepLoopNeverWaits == mv.fn \in MeasurementLoops => NeverWaits

\* The same of the two measureDuringMove variants only.
C14_NonBlockingLoopsNeverWait ==
    mv.fn \in {"measureDuringMove", "measureDuringMoveSum"} => NeverWaits

----------------------------------------------------------------------------
(* C15: sample capacity is never exceeded: in every reachable state of a    *)
(* pass the sample count of the pass is between 0 and the capacity and      *)
(* every sample write lands at an index in [0, capacity); once the count    *)
(* equals the capacity, further ready readings are dropped without being    *)
(* stored (measureDuringMove and forceSamplingTask).                        *)

CountsWithinCapacity ==
    /\ g_fwdSampleCount \in 0..MAX_SAMPLES
    /\ g_revSampleCount \in 0..MAX_SAMPLES
    /\ mv.fn = "measureDuringMove" =>
          mv.nF \in 0..MAX_SAMPLES /\ Len(mv.samples) = mv.nF

\* A pass whose count has reached the capacity leaves its buffer as it is
\* for as long as the pass lasts.
FullBufferKept ==
    /\ (passLog.fwd.full /\ g_currentPhase = "PHASE_MEASURING_FWD")
          => g_fwdSamples' = g_fwdSamples
    /\ (passLog.rev.full /\ g_currentPhase = "PHASE_MEASURING_REV")
          => g_revSamples' = g_revSamples

C15_CapacityNeverExceeded == [](CountsWithinCapacity) /\ [][FullBufferKept]_vars

\* The part on the range of the count and of the write index alone.
C15_CountsWithinCapacity == CountsWithinCapacity

\* measureDuringMove alone: a full sample array is left as it is.
C15_SingleCoreDropsWhenFull ==
    [][(mv.fn = "measureDuringMove" /\ mv.pc = "loop" /\ mv.nF = MAX_SAMPLES)
          => mv.samples' = mv.samples]_vars

----------------------------------------------------------------------------
(* C16: in forceSamplingTask the write cursor (sample count) of a pass      *)
(* buffer is reset to 0 only at the start of that pass and never again      *)
(* while the pass is in flight; when the buffer becomes full mid-pass the   *)
(* samples captured are retained, so at the end of the pass the count       *)
(* equals the capacity and the buffer holds the first `capacity` samples of *)
(* the pass.                                                                *)

\* The first MAX_SAMPLES readings of a pass, converted.
FirstReadings ==
    [i \in 1..MAX_SAMPLES |-> rawToPounds(i, g_tareRaw, g_calibration).value]

PassOver(pass) ==
    /\ passLog[pass].begun
    /\ g_currentPhase # (IF pass = "fwd" THEN "PHASE_MEASURING_FWD"
                          ELSE "PHASE_MEASURING_REV")

C16_CursorResetOnlyAtPassStart ==
    /\ passLog.fwd.resets <= 1 /\ passLog.rev.resets <= 1
    /\ (PassOver("fwd") /\ passLog.fwd.full) =>
          g_fwdSampleCount = MAX_SAMPLES /\ g_fwdSamples = FirstReadings
    /\ (PassOver("rev") /\ passLog.rev.full) =>
          g_revSampleCount = MAX_SAMPLES /\ g_revSamples = FirstReadings

----------------------------------------------------------------------------
(* C17: at most one motion command is in flight at any time: requestMotion  *)
(* never enqueues a command while a command sent before is still queued or  *)
(* executing and unacknowledged, so the motion queue never holds a command  *)
(* while the motion task is executing another, in every interleaving, also  *)
(* when the wait of requestMotion times out.                                *)

Executing == motionTaskState.pc = "executing"

C17_AtMostOneCommandInFlight ==
    Len(motionCommandQueue) + (IF Executing THEN 1 ELSE 0) <= 1

\* The same of the runs in which no wait has timed out.
C17_OneInFlightWithoutTimeout ==
    (\A i \in 1..Len(runTestTask.acks) : runTestTask.acks[i]) =>
        C17_AtMostOneCommandInFlight

----------------------------------------------------------------------------
(* C22: calculateCOF, avgPercentileBand and avgWithinOneStdDev never modify *)
(* the forward, reverse or friction array passed to them (the sort works on *)
(* a private copy), and every working buffer they allocate is released      *)
(* exactly once on every return path.                                       *)

\* Every malloc that succeeded has exactly one free, and nothing else is
\* freed.
ReleasedOnce(mallocs, frees) ==
    /\ \A i \in 1..Len(mallocs) :
         mallocs[i] => Cardinality({j \in 1..Len(frees) : frees[j] = i}) = 1
    /\ \A j \in 1..Len(frees) : frees[j] \in 1..Len(mallocs) /\ mallocs[frees[j]]

C22_InputsKeptBuffersReleasedOnce ==
    [][ /\ fwdSamples' = fwdSamples
        /\ revSamples' = revSamples
        /\ avgLeft' = avgArgs'
        /\ ReleasedOnce(mallocLog', freeLog') ]_vars

\* calculateCOF returned after both allocations succeeded, the strategy
\* having sorted a friction array that was not in ascending order.
C22_Witness ==
    /\ Returned
    /\ mallocLog = <<TRUE, TRUE>>
    /\ freeLog = <<2, 1>>
    /\ avgArgs # <<>>
    /\ avgArgs[1] # qsort(avgArgs[1])
    /\ fwdSamples # qsort(fwdSamples)

\* The same of a strategy called directly on an array.
C22_StrategiesKeepTheirArray ==
    [][samples' = samples /\ ReleasedOnce(avgOut'.mallocs, avgOut'.frees)]_vars

----------------------------------------------------------------------------
(* C27: requestMotion returns true only after the motion task has finished  *)
(* executing the very command that call enqueued; a completion signal given *)
(* for an earlier command is never taken as the acknowledgement of a later  *)
(* one.                                                                      *)

InSeq(x, s) == \E i \in 1..Len(s) : s[i] = x

\* The requestMotion calls that have returned true so far.
Acknowledged == {k \in 1..Len(runTestTask.acks) : runTestTask.acks[k]}

C27_AcknowledgedMeansCompleted ==
    \A k \in Acknowledged : InSeq(k, motionLog.completed)

\* The same of the runs in which no wait has timed out.
C27_CompletedWithoutTimeout ==
    (\A i \in 1..Len(runTestTask.acks) : runTestTask.acks[i]) =>
        C27_AcknowledgedMeansCompleted

----------------------------------------------------------------------------
(* C29: every command placed on the motion queue is eventually dequeued and *)
(* executed, in FIFO order, and is followed by exactly one give of the      *)
(* completion semaphore, whatever its kind or outcome; at each give         *)
(* g_collectSamples is false, g_currentPhase is PHASE_NONE and              *)
(* g_motionActive is false.                                                 *)

\* The commands completed, the one executing and those queued are the
\* commands sent, in the order sent; one give per command completed.  A run
\* sends finitely many commands: each is eventually executed when from some
\* point on all the commands sent are completed.
ExecutedInOrderOnce ==
    /\ motionLog.sent =
           motionLog.completed
           \o (IF motionLog.executing = 0 THEN <<>> ELSE <<motionLog.executing>>)
           \o motionLog.queued
    /\ motionLog.gives = Len(motionLog.completed)

GiveWithFlagsCleared ==
    motionLog'.gives # motionLog.gives =>
        /\ motionLog'.gives = motionLog.gives + 1
        /\ Len(motionLog'.completed) = Len(motionLog.completed) + 1
        /\ ~g_collectSamples'
        /\ g_currentPhase' = "PHASE_NONE"
        /\ ~g_motionActive'

C29_EveryCommandExecutedOnce ==
    /\ []ExecutedInOrderOnce
    /\ [][GiveWithFlagsCleared]_vars
    /\ <>[](motionLog.completed = motionLog.sent)

\* Two commands were in the queue together (a wait had timed out) and all
\* the commands sent have been executed, the timed-out homing included.
C29_Witness ==
    /\ runTestTask.at = "returned"
    /\ \E i \in 1..Len(runTestTask.acks) : ~runTestTask.acks[i]
    /\ Len(motionLog.sent) > 2
    /\ motionLog.completed = motionLog.sent
    /\ motionLog.gives = Len(motionLog.sent)

----------------------------------------------------------------------------
(* C26: while a measurement pass is in flight the sample buffers and their  *)
(* counters are written only by the sampling task.  No step of the motion   *)
(* task touches g_fwdSamples, g_revSamples, g_fwdSampleCount or             *)
(* g_revSampleCount; runTest writes the counters only before the first      *)
(* motion command of the run and reads buffers and counters only after the  *)
(* last one.                                                                *)

sampleVars == <<g_fwdSamples, g_revSamples, g_fwdSampleCount, g_revSampleCount>>

\* Which task a step belongs to: each task's step moves its own position.
StepOfMotionTask == motionTaskState' # motionTaskState
StepOfSamplingTask == samplingTaskState' # samplingTaskState
StepOfRunTest == runTestTask' # runTestTask

\* A measured move is queued or executing.
PassInFlight ==
    \/ g_collectSamples
    \/ \E i \in 1..Len(motionCommandQueue) :
         motionCommandQueue[i].cmd = "CMD_MEASURE_MOVE"

C26_BuffersWrittenBySamplerOnly ==
    [][ /\ StepOfMotionTask => UNCHANGED sampleVars
        /\ (StepOfRunTest /\ sampleVars' # sampleVars) =>
               (runTestTask.at = "start" /\ motionLog.sent = <<>>)
        /\ (StepOfRunTest /\ rr' # rr) =>
               (runTestTask.k > Len(RunTestRequests) /\ runTestTask'.at = "returned")
        /\ (PassInFlight /\ sampleVars' # sampleVars) => StepOfSamplingTask ]_vars

\* The motion task is stepping through a measured move, the sampling task
\* having stored samples of it.
C26_Witness ==
    /\ g_collectSamples
    /\ motionTaskState.pc = "executing"
    /\ motionTaskState.i > 0
    /\ g_fwdSampleCount > 0
    /\ samplingTaskState.pc = "read"

----------------------------------------------------------------------------
(* C28: samples are routed to the buffer of the pass in progress.  Every    *)
(* value appended to g_fwdSamples was read while the motion task was        *)
(* executing the forward measurement move, every value appended to          *)
(* g_revSamples while it was executing the reverse measurement move, and    *)
(* none is appended when no measurement move is executing, in every         *)
(* interleaving of the two tasks.                                           *)

ExecutingPass(pass) ==
    /\ motionTaskState.pc = "executing"
    /\ motionTaskState.req.cmd = "CMD_MEASURE_MOVE"
    /\ PassOf(motionTaskState.req.phase) = pass

C28_SamplesOfThePassInProgress ==
    [][ /\ g_fwdSampleCount' = g_fwdSampleCount + 1 => ExecutingPass("fwd")
        /\ g_revSampleCount' = g_revSampleCount + 1 => ExecutingPass("rev") ]_vars

\* The same of the runs in which no wait has timed out, allowing the reading
\* that was under way when the move ended.
C28_RoutedWithoutTimeout ==
    [][ (\A i \in 1..Len(runTestTask.acks) : runTestTask.acks[i]) =>
          /\ g_fwdSampleCount' = g_fwdSampleCount + 1 =>
                 (ExecutingPass("fwd") \/ ~ExecutingPass("rev"))
          /\ g_revSampleCount' = g_revSampleCount + 1 =>
                 (ExecutingPass("rev") \/ ~ExecutingPass("fwd")) ]_vars

----------------------------------------------------------------------------
(* C30: trimming by position.  During the first and the last trim distance  *)
(* of a measurement pass the actuator moves and no force sample is          *)
(* recorded: a sample is recorded at step ordinal i only if                 *)
(* trimSteps <= i < steps - trimSteps, so that a pass records at most       *)
(* max(0, steps - 2 * trimSteps) samples.                                   *)

\* The step ordinal of the source's pass (steps_measure steps) at which the
\* motion task stands: its loop index, each iteration of the model standing
\* for steps_measure / steps steps.
StepOrdinal == motionTaskState.i * (steps_measure \div motionTaskState.steps)

InTrimmedWindow(i, steps, trimSteps) == trimSteps <= i /\ i < steps - trimSteps

C30_NoSampleInTrimDistance ==
    [][ \A pass \in {"fwd", "rev"} :
          LET count == IF pass = "fwd" THEN g_fwdSampleCount ELSE g_revSampleCount
              countAfter == IF pass = "fwd" THEN g_fwdSampleCount' ELSE g_revSampleCount'
          IN  (ExecutingPass(pass) /\ countAfter = count + 1) =>
                  InTrimmedWindow(StepOrdinal, steps_measure, steps_trim) ]_vars

\* measureDuringMove records a sample in the iteration of step ordinal i
\* only if i lies in the window.
C30_MeasureDuringMoveSamplesInWindow ==
    [][ (mv.fn = "measureDuringMove" /\ mv'.nF = mv.nF + 1) =>
            InTrimmedWindow(mv.i, mv.steps, mv.trimSteps) ]_vars

\* and at most max(0, steps - 2 * trimSteps) samples in a pass.
C30_MeasureDuringMoveCount ==
    mv.fn = "measureDuringMove" =>
        /\ mv.nF <= IF mv.steps - 2 * mv.trimSteps > 0
                    THEN mv.steps - 2 * mv.trimSteps ELSE 0
        /\ 2 * mv.trimSteps >= mv.steps => mv.nF = 0

----------------------------------------------------------------------------
(* C21: the calibration is left alone by the measurement.  The stages that  *)
(* measure and compute (runTest, the motion task, the sampling task,        *)
(* measureDuringMove, rawToPounds, calculateCOF, the CSV dumps) never       *)
(* change g_calibration, g_tareRaw or the calibration persisted in the      *)
(* Preferences; only the tare and calibration operations do.                *)

CalibrationState == <<g_calibration, g_tareRaw, prefs>>

C21_OnlyTareAndCalibrationWrite ==
    [][ /\ mv' # mv => UNCHANGED CalibrationState
        /\ CalibrationState' # CalibrationState => (TareNow \/ DoCalibration3lb) ]_vars

\* A pass measured with a calibration that doCalibration3lb computed and
\* saved, and that is still the calibration when the pass is over.
C21_Witness ==
    /\ mv.fn = "measureDuringMove" /\ mv.pc = "returned" /\ mv.nF > 0
    /\ calOp.op = "doCalibration3lb" /\ g_calibration = RInt(-2000)
    /\ \E raw \in SensorReadings :
         mv.samples[1] = rawToPounds(raw, g_tareRaw, g_calibration).value
    /\ prefs = saveCalibration(g_calibration, g_tareRaw)

\* In the runs of calculateCOF, of the averaging strategies, of rawToPounds,
\* of the CSV dump, of the runTest variants, of the moves on one core and of
\* the three tasks on two cores, no step changes the calibration.
C21_StagesKeepCalibration == [][UNCHANGED CalibrationState]_vars

----------------------------------------------------------------------------
(* C23: homing always terminates, even when the limit switch never reports  *)
(* a hit.  Each approach is abandoned once its timeout has elapsed, and on  *)
(* a timeout the stepper driver is disabled and the motion-active flag is   *)
(* cleared before the homing returns.                                       *)

HomingReturned == hm.pc = "returned"

\* An approach makes no step later than one tick after its timeout.
ApproachesBounded ==
    \A k \in 1..2 : hm.toward[k] <= HomingTimeoutTicks(hm.fn) + 1

\* A homing that gave up did so after more than its timeout in an approach,
\* and has returned with the driver disabled and the flag cleared.
TimeoutReleases ==
    hm.timedOut # "none" =>
        /\ HomingReturned
        /\ hm.waited > HomingTimeoutTicks(hm.fn)
        /\ ~hm.enabled /\ ~g_motionActive

----------------------------------------------------------------------------
(* C24: the events of readButton.  Of one continuous press a long press is  *)
(* reported by at most one call, the first made when the press has lasted   *)
(* LONG_PRESS_MS or more, and a press that reported it reports no short     *)
(* press when released; a short press is reported only by the call that     *)
(* detects the release, and only if the press lasted at least DEBOUNCE_MS   *)
(* and less than LONG_PRESS_MS; a change of level seen within DEBOUNCE_MS   *)
(* of the change accepted before it is ignored.  Every press yields at most *)
(* one event.  Durations are the times really passed, the struct's          *)
(* timestamps being taken on the wrapping clock.                            *)

AtMostOneEvent == btn.press.longs + btn.press.shorts <= 1

LongAtFirstLateCall == (btn.press.longs = 1) <=> (btn.press.lateCalls >= 1)

LongOnlyWhenHeldLong ==
    btn.call.longPress =>
        /\ btn.press.lateCalls = 1
        /\ btn.call.wasDown /\ ~btn.call.accepted /\ btn.b.last = LOW
        /\ btn.call.since >= LONG_PRESS_MS

ShortOnlyOnRelease ==
    btn.call.shortPress =>
        /\ btn.call.accepted /\ btn.call.cur = HIGH /\ btn.call.wasDown
        /\ btn.call.since >= DEBOUNCE_MS /\ btn.call.since < LONG_PRESS_MS
        /\ btn.press.longs = 0

ChangeWithinDebounceIgnored ==
    (btn.call.made /\ (btn.call.cur = HIGH) = btn.call.wasDown
                   /\ btn.call.since <= DEBOUNCE_MS) =>
        /\ ~btn.call.accepted /\ ~btn.call.shortPress
        /\ (btn.b.last = LOW) = btn.call.wasDown

C24_ButtonEvents ==
    btn.pc = "polling" =>
        /\ AtMostOneEvent
        /\ LongAtFirstLateCall
        /\ LongOnlyWhenHeldLong
        /\ ShortOnlyOnRelease
        /\ ChangeWithinDebounceIgnored

\* A long press reported for a press during which the clock wrapped around.
C24_Witness ==
    /\ btn.pc = "polling" /\ btn.call.longPress /\ btn.press.lateCalls = 1
    /\ btn.now < btn.b.downAt

\* A short press reported.
C24_ShortWitness ==
    /\ btn.pc = "polling" /\ btn.call.shortPress /\ btn.now < btn.b.downAt

----------------------------------------------------------------------------
(* C25: writeToRFID returns true if and only if some accumulate call        *)
(* returned Success, and false when aborted, when the tag is full (at once, *)
(* no further attempt consumed) or after 5 failed attempts.  Each read,     *)
(* write, payload or crypto error and each tag-wait timeout of an attempt   *)
(* counts as exactly one attempt, a NoTag result alone consumes none, the   *)
(* attempt counter never exceeds 5, and the function always terminates as   *)
(* time advances.                                                           *)

RfidReturned == rfid.pc = "returned"

AttemptsCounted ==
    /\ rfid.attemptNumber = rfid.errors + rfid.timeouts
    /\ rfid.attemptNumber <= MAX_RETRIES

ReturnValue ==
    /\ rfid.successes >= 1 => RfidReturned /\ rfid.result
    /\ (rfid.tagFull \/ rfid.aborted) => RfidReturned /\ ~rfid.result
    /\ RfidReturned =>
         /\ rfid.result <=> rfid.successes >= 1
         /\ ~rfid.result =>
              (rfid.aborted \/ rfid.tagFull \/ rfid.attemptNumber = MAX_RETRIES)

OneAttemptPerFailure ==
    /\ rfid'.last = "NoTag" =>
         rfid'.attemptNumber = rfid.attemptNumber /\ rfid'.pc = "poll"
    /\ rfid'.last = "TagFull" /\ rfid.pc = "gate" =>
         rfid'.attemptNumber = rfid.attemptNumber /\ rfid'.pc = "returned"
    /\ rfid'.last \in AccumulateErrors /\ rfid.pc = "gate" =>
         rfid'.attemptNumber = rfid.attemptNumber + 1
    /\ rfid'.timeouts = rfid.timeouts + 1 =>
         /\ rfid'.attemptNumber = rfid.attemptNumber + 1
         /\ Elapsed(rfid.now, rfid.attemptStartTime) >= TAG_WAIT_TIMEOUT
    /\ rfid'.attemptNumber \in {rfid.attemptNumber, rfid.attemptNumber + 1}

C25_WriteToRfidOutcome ==
    /\ [](AttemptsCounted /\ ReturnValue)
    /\ [][OneAttemptPerFailure]_vars
    /\ <>RfidReturned

\* All five attempts failed, by errors and by timeouts, with NoTag polls
\* between.
C25_Witness ==
    /\ RfidReturned /\ ~rfid.result /\ ~rfid.aborted /\ ~rfid.tagFull
    /\ rfid.attemptNumber = MAX_RETRIES /\ rfid.errors >= 1 /\ rfid.timeouts >= 1

----------------------------------------------------------------------------
(* C31: in the dual-core runTest each pass is trimmed relative to its own   *)
(* captured sample count: the number of samples discarded from the head and *)
(* from the tail of the reverse pass is computed from the reverse pass's    *)
(* count, that of the forward pass from the forward count, and a pass whose *)
(* trimmed window would be empty is not silently used untrimmed.            *)

DualRunDone == pc = "done" /\ rr.variant = "dual-core"

\* The samples a pass of count samples loses at each end when the trim is
\* taken from its own count.
OwnTrim(count) == (count * steps_trim) \div steps_measure

\* The window runTest averaged is the pass without its own trim at each end.
TrimmedByOwnCount(count, startIdx, endIdx) ==
    /\ startIdx = OwnTrim(count)
    /\ endIdx = count - OwnTrim(count)

C31_EachPassTrimmedByItsOwnCount ==
    DualRunDone =>
        /\ TrimmedByOwnCount(Len(rr.fwd), RunOut.fwdStartIdx, RunOut.fwdEndIdx)
        /\ TrimmedByOwnCount(Len(rr.rev), RunOut.revStartIdx, RunOut.revEndIdx)
        /\ \/ Len(rr.rev) = 0
           \/ Len(rr.rev) - RunOut.trimSamplesPerSide > RunOut.trimSamplesPerSide
           \/ RunOut.revCount # Len(rr.rev)

\* The forward pass is trimmed by its own count.
C31_ForwardTrimmedByItsOwnCount ==
    DualRunDone =>
        TrimmedByOwnCount(Len(rr.fwd), RunOut.fwdStartIdx, RunOut.fwdEndIdx)

----------------------------------------------------------------------------
(* C36: in the dual-core runTest the trimmed windows are always inside the  *)
(* captured data: for both passes 0 <= startIdx <= endIdx <= sampleCount    *)
(* for every combination of forward and reverse sample counts (the trim     *)
(* amount is derived from the forward count and applied to both passes; a   *)
(* pass whose window would be empty or inverted falls back to its whole     *)
(* range), so the averaging never reads outside [0, sampleCount) of either  *)
(* buffer.                                                                  *)

\* The window [startIdx, endIdx) of a pass of count samples under the trim
\* t: inside the pass, and the whole pass when t leaves nothing.
WindowInside(count, t, startIdx, endIdx) ==
    /\ 0 <= startIdx /\ startIdx <= endIdx /\ endIdx <= count
    /\ IF count - t <= t
       THEN startIdx = 0 /\ endIdx = count
       ELSE startIdx = t /\ endIdx = count - t

C36_TrimmedWindowsInsideThePasses ==
    DualRunDone =>
        /\ RunOut.trimSamplesPerSide = OwnTrim(Len(rr.fwd))
        /\ WindowInside(Len(rr.fwd), RunOut.trimSamplesPerSide,
                        RunOut.fwdStartIdx, RunOut.fwdEndIdx)
        /\ WindowInside(Len(rr.rev), RunOut.trimSamplesPerSide,
                        RunOut.revStartIdx, RunOut.revEndIdx)
        /\ RunOut.fwdStartIdx + RunOut.fwdCount <= Len(rr.fwd)
        /\ RunOut.revStartIdx + RunOut.revCount <= Len(rr.rev)

\* A forward pass that loses a sample at each end and a reverse pass too
\* short for that trim, averaged whole.
C36_Witness ==
    /\ DualRunDone /\ RunOut.trimSamplesPerSide >= 1
    /\ RunOut.fwdStartIdx = RunOut.trimSamplesPerSide
    /\ Len(rr.rev) >= 1 /\ RunOut.revStartIdx = 0 /\ RunOut.revEndIdx = Len(rr.rev)

----------------------------------------------------------------------------
(* calculateCOF and then dumpPairedDataCSV on the same two passes with the  *)
(* same trimFraction.                                                       *)

DumpAfterCalculateCOF ==
    /\ pc = "done"
    /\ avgFn # "none"
    /\ csv = <<>>
    /\ csv' = dumpPairedDataCSV(fwdSamples, Len(fwdSamples),
                                revSamples, Len(revSamples), trimFraction)
    /\ pc' = "dumped"
    /\ UNCHANGED <<cofVars, convVars, rr, mv, ctlVars, dualVars>>

NextPaired == CallCalculateCOF \/ DumpAfterCalculateCOF

SpecPaired == Init /\ [][NextPaired]_vars

----------------------------------------------------------------------------
(* C32: the CSV export uses exactly the pairing of calculateCOF: for the    *)
(* same two passes and trimFraction it writes data rows if and only if      *)
(* calculateCOF finds valid pairs, as many rows as calculateCOF's           *)
(* pairedCount, and row i carries the forward sample, the reverse sample,   *)
(* the friction |fwd - rev| / 2 and the bias (fwd + rev) / 2 of             *)
(* calculateCOF's pair i; with no valid pairs it writes an error line and   *)
(* no rows.                                                                 *)

BothCalled == pc = "dumped"
CsvRows == SelectSeq(csv, LAMBDA line : line.kind = "row")
PairedBufferAllocated == mallocLog # <<>> /\ mallocLog[1]

\* Row i is pair i of calculateCOF, printed to four decimals.
RowIsPair(i) ==
    LET fwd == fwdSamples[pairs[i + 1][1] + 1]
        rev == revSamples[pairs[i + 1][2] + 1]
    IN  CsvRows[i + 1].fields =
            <<i, PrintFloat4(fwd), PrintFloat4(rev),
              PrintFloat4(avgArgs[1][i + 1]),
              PrintFloat4(RDiv(RAdd(fwd, rev), RInt(2)))>>

NoRowsButError ==
    csv = <<CsvStart, TextLine("ERROR: no valid pairs"), CsvEnd>>

C32_CsvRowsAreCalculateCofPairs ==
    BothCalled =>
        /\ (CsvRows # <<>>) <=> (result.pairedCount > 0)
        /\ Len(CsvRows) = result.pairedCount
        /\ Len(pairs) = result.pairedCount
        /\ \A i \in 0..(result.pairedCount - 1) : RowIsPair(i)
        /\ result.pairedCount = 0 => NoRowsButError

\* With the paired-friction buffer allocated, or no pair to allocate for,
\* the rows are the pairs of calculateCOF.
C32_SamePairingWhenAllocated ==
    (BothCalled /\ (PairedBufferAllocated \/ mallocLog = <<>>)) =>
        /\ (CsvRows # <<>>) <=> (result.pairedCount > 0)
        /\ Len(CsvRows) = result.pairedCount
        /\ Len(pairs) = result.pairedCount
        /\ \A i \in 0..(result.pairedCount - 1) : RowIsPair(i)
        /\ result.pairedCount = 0 => NoRowsButError

\* Three pairs with the reverse pass read backwards, all three rows written.
C32_AllocatedWitness ==
    /\ BothCalled /\ PairedBufferAllocated
    /\ result.pairedCount = 3 /\ Len(CsvRows) = 3
    /\ pairs[1][2] > pairs[3][2]
    /\ revSamples[pairs[1][2] + 1] # revSamples[pairs[3][2] + 1]

\* The paired-friction malloc failed: no pair counted, rows written.
C32_RowsWithoutPairs ==
    BothCalled /\ ~PairedBufferAllocated /\ mallocLog # <<>>
        /\ result.pairedCount = 0 /\ Len(CsvRows) >= 1

----------------------------------------------------------------------------
(* C33: a homing that succeeds steps toward the limit until the switch      *)
(* reads hit, then exactly BACKOFF_STEPS away, then toward the limit until   *)
(* the switch reads hit again, then exactly BACKOFF_STEPS / 2 away, in that  *)
(* order; no step toward the limit is made in an iteration in which the      *)
(* switch already reads hit; the stepper is disabled when the homing         *)
(* returns.                                                                  *)

HomingSucceeded == hm.pc = "returned" /\ hm.result = TRUE

\* What has been stepped so far, by the place the homing is at.
StepsByPhase ==
    /\ hm.pc \in {"idle", "approach1"} => hm.toward[2] = 0 /\ hm.away = <<0, 0>>
    /\ hm.pc = "backoff1" =>
          hm.toward[2] = 0 /\ hm.away = <<hm.i, 0>> /\ hm.i <= BACKOFF_STEPS
    /\ hm.pc = "approach2" => hm.away = <<BACKOFF_STEPS, 0>>
    /\ hm.pc = "backoff2" =>
          hm.away = <<BACKOFF_STEPS, hm.i>> /\ hm.i <= BACKOFF_STEPS \div 2
    /\ HomingSucceeded => hm.away = <<BACKOFF_STEPS, BACKOFF_STEPS \div 2>>
    /\ hm.pc = "returned" => ~hm.enabled

\* One step at a time, each in its own loop; the iteration that finds the
\* switch closed leaves the approach without a step.
StepInItsLoop ==
    /\ \A k \in 1..2 :
         LET approach == IF k = 1 THEN "approach1" ELSE "approach2"
             backoff == IF k = 1 THEN "backoff1" ELSE "backoff2"
         IN  /\ hm'.toward[k] # hm.toward[k] =>
                   /\ hm.pc = approach /\ hm'.pc = approach
                   /\ hm'.toward[k] = hm.toward[k] + 1
                   /\ hm'.away = hm.away
             /\ hm'.away[k] # hm.away[k] =>
                   /\ hm.pc = backoff /\ hm'.pc = backoff
                   /\ hm'.away[k] = hm.away[k] + 1
                   /\ hm'.toward = hm.toward
             /\ (hm.pc = approach /\ hm'.pc = backoff) => hm'.toward = hm.toward

C33_HomingStepOrder == []StepsByPhase /\ [][StepInItsLoop]_vars

\* executeHome has returned true after steps in both approaches.
C33_Witness ==
    /\ HomingSucceeded /\ hm.fn = "executeHome"
    /\ hm.toward[1] >= 1 /\ hm.toward[2] >= 1
    /\ hm.away = <<BACKOFF_STEPS, BACKOFF_STEPS \div 2>>
    /\ ~hm.enabled

----------------------------------------------------------------------------
(* C34: for every count >= 10 the percentile band is well-formed:           *)
(* 0 <= idx85 < idx95 <= count, so the band is never empty, every index     *)
(* read lies inside the sorted array and the "rangeCount > 0 ? ... : 0.0"   *)
(* fallback is not taken; with exactly 10 samples the band holds exactly    *)
(* one sample, the one at sorted index 8.                                   *)

\* idx85 = (long)(count * 0.85) computed on count / 100 first.
PercentileBand_divideFirst(count) ==
    LET i85 == (count \div 100) * 85
        idx95 == (count \div 100) * 95
        i85b == IF i85 >= idx95 THEN idx95 - 1 ELSE i85
        idx85 == IF i85b < 0 THEN 0 ELSE i85b
    IN  [idx85 |-> idx85, idx95 |-> idx95, rangeCount |-> idx95 - idx85]

\* long idx85 = (long)(count * 0.85); long idx95 = (long)(count * 0.95);
\* if (idx85 >= idx95) idx85 = idx95 - 1; if (idx85 < 0) idx85 = 0;
\* long rangeCount = idx95 - idx85;
PercentileBand(count) ==
    LET i85 == (count * 85) \div 100
        idx95 == (count * 95) \div 100
        i85b == IF i85 >= idx95 THEN idx95 - 1 ELSE i85
        idx85 == IF i85b < 0 THEN 0 ELSE i85b
    IN  [idx85 |-> idx85, idx95 |-> idx95, rangeCount |-> idx95 - idx85]

\* avgPercentileBand has sorted a copy of 10 samples or more.
BandTaken ==
    /\ pc = "done" /\ avgOut.fn = "avgPercentileBand"
    /\ Len(samples) >= 10 /\ avgOut.mallocs = <<TRUE>>

\* for (long i = idx85; i < idx95; i++) sum += sorted[i];
BandReads(count) == PercentileBand(count).idx85 .. (PercentileBand(count).idx95 - 1)

C34_PercentileBandWellFormed ==
    BandTaken =>
        LET count == Len(samples)
            band == PercentileBand(count)
            sorted == qsort(samples)
        IN  /\ 0 <= band.idx85 /\ band.idx85 < band.idx95 /\ band.idx95 <= count
            /\ band.rangeCount > 0
            /\ BandReads(count) # {}
            /\ BandReads(count) \subseteq 0..(count - 1)
            /\ avgOut.value = RDiv(SumRange(sorted, band.idx85, band.idx95),
                                   RInt(band.rangeCount))
            /\ count = 10 =>
                  /\ BandReads(count) = {8}
                  /\ avgOut.value = sorted[9]

\* Ten samples whose values at sorted indices 7 and 8 differ: the band gives
\* the single value at index 8.
C34_Witness ==
    /\ BandTaken /\ Len(samples) = 10
    /\ qsort(samples)[8] # qsort(samples)[9]
    /\ avgOut.value = qsort(samples)[9]

----------------------------------------------------------------------------
(* The array accesses of the pairing loops of calculateCOF and of           *)
(* dumpPairedDataCSV, without the values: iteration i reads                 *)
(* fwdSamples[fwdStart + i] and revSamples[revStart + (pairCount - 1 - i)], *)
(* and in calculateCOF writes pairedFriction[i].  Each entry of the log is  *)
(* <<forward index, reverse index, i>>.                                     *)

PairingLoop(fwdCount, revCount, trim) ==
    LET tp == computeTrimParams(fwdCount, revCount, trim)
    IN  IF ~tp.ok THEN <<>>
        ELSE [k \in 1..tp.pairedCount |->
                 <<PairFwdIndex(tp.fwdStart, k - 1),
                   PairRevIndex(tp.revStart, tp.pairedCount, k - 1),
                   k - 1>>] \o <<>>

\* calculateCOF up to the end of its loop; mallocLog holds the outcome of
\* malloc(pairCount * sizeof(float)) and avgArgs the size asked for.
LoopOfCalculateCOF ==
    /\ pc = "idle"
    /\ \E t \in TrimFractions, heapOk \in BOOLEAN :
         LET tp == computeTrimParams(Len(fwdSamples), Len(revSamples), t)
         IN  /\ trimFraction' = t
             /\ mallocLog' = IF tp.ok THEN <<heapOk>> ELSE <<>>
             /\ avgArgs' = IF tp.ok /\ heapOk THEN <<tp.pairedCount>> ELSE <<>>
             /\ pairs' = IF tp.ok /\ heapOk
                         THEN PairingLoop(Len(fwdSamples), Len(revSamples), t)
                         ELSE <<>>
    /\ pc' = "calculateCOF"
    /\ UNCHANGED <<fwdSamples, revSamples, normalForceLb, avgFn, result, serial,
                   avgLeft, freeLog, samples, avgOut, convVars, csv, rr, mv,
                   ctlVars, dualVars>>

\* dumpPairedDataCSV up to the end of its loop: no buffer of its own.
LoopOfDumpPairedDataCSV ==
    /\ pc = "idle"
    /\ \E t \in TrimFractions :
         /\ trimFraction' = t
         /\ pairs' = PairingLoop(Len(fwdSamples), Len(revSamples), t)
    /\ pc' = "dumpPairedDataCSV"
    /\ UNCHANGED <<fwdSamples, revSamples, normalForceLb, avgFn, result, serial,
                   avgArgs, avgLeft, mallocLog, freeLog, samples, avgOut,
                   convVars, csv, rr, mv, ctlVars, dualVars>>

NextIndex == LoopOfCalculateCOF \/ LoopOfDumpPairedDataCSV

SpecIndex == Init /\ [][NextIndex]_vars

----------------------------------------------------------------------------
(* C35: every array access of calculateCOF and of dumpPairedDataCSV is in   *)
(* bounds for all fwdCount, revCount >= 1 and trimFraction in [0, 0.5):     *)
(* 0 <= fwdStart + i < fwdCount, 0 <= revStart + (pairCount - 1 - i) <      *)
(* revCount, and pairedFriction is written only at indices [0, pairCount).  *)

LoopRan == pc \in {"calculateCOF", "dumpPairedDataCSV"}

AccessesInBounds ==
    \A k \in 1..Len(pairs) :
        /\ 0 <= pairs[k][1] /\ pairs[k][1] < Len(fwdSamples)
        /\ 0 <= pairs[k][2] /\ pairs[k][2] < Len(revSamples)
        /\ pc = "calculateCOF" =>
              /\ avgArgs # <<>>
              /\ 0 <= pairs[k][3] /\ pairs[k][3] < avgArgs[1]

\* The accesses are those of the two functions as modelled with the values.
AccessesAreThePairs ==
    LET out == calculateCOF(fwdSamples, Len(fwdSamples), revSamples,
                            Len(revSamples), RInt(2), trimFraction,
                            "avgPercentileBand", 2)
        rows == SelectSeq(dumpPairedDataCSV(fwdSamples, Len(fwdSamples), revSamples,
                                            Len(revSamples), trimFraction),
                          LAMBDA line : line.kind = "row")
    IN  /\ (pc = "calculateCOF" /\ mallocLog = <<TRUE>>) =>
              /\ Len(out.pairs) = Len(pairs)
              /\ \A k \in 1..Len(pairs) : out.pairs[k] = <<pairs[k][1], pairs[k][2]>>
        /\ pc = "dumpPairedDataCSV" =>
              /\ Len(rows) = Len(pairs)
              /\ \A k \in 1..Len(pairs) :
                    rows[k] = CsvRow(pairs[k][3], fwdSamples[pairs[k][1] + 1],
                                     revSamples[pairs[k][2] + 1])

C35_PairingAccessesInBounds ==
    (/\ LoopRan
     /\ Len(fwdSamples) >= 1 /\ Len(revSamples) >= 1
     /\ TrimInRange) =>
        /\ AccessesInBounds
        /\ AccessesAreThePairs

\* A trimmed pairing of passes of different lengths whose last pair reads
\* the first sample of the reverse window.
C35_Witness ==
    /\ LoopRan /\ TrimInRange /\ ~RLeq(trimFraction, RInt(0))
    /\ Len(fwdSamples) > Len(revSamples)
    /\ Len(pairs) >= 3
    /\ pairs[1][1] >= 1
    /\ pairs[Len(pairs)][2] >= 1
    /\ pairs[1][2] = pairs[Len(pairs)][2] + Len(pairs) - 1

----------------------------------------------------------------------------
(* C37: a failed calibration (|delta| < 100, shown as "CAL FAILED") leaves  *)
(* the calibration state as it was before the calibration started: after it *)
(* g_calibration and g_tareRaw both equal their values before the           *)
(* calibration and equal the persisted values.                              *)

CalFailed == calOp.op = "doCalibration3lb" /\ calOp.oled = "CAL FAILED"

\* What loadCalibration would read back from the Preferences.
Persisted == loadCalibration(prefs, DefaultCalibration)

\* A step that ends in "CAL FAILED" changes neither global.
FailedCalibrationKeepsGlobals ==
    (calOp'.op = "doCalibration3lb" /\ calOp'.oled = "CAL FAILED") =>
        /\ g_calibration' = g_calibration
        /\ g_tareRaw' = g_tareRaw

C37_FailedCalibrationKeepsGlobals == [][FailedCalibrationKeepsGlobals]_vars

\* After a failed calibration both globals are the persisted values.
C37_FailedCalibrationLeavesState ==
    CalFailed =>
        /\ g_calibration = Persisted.g_calibration
        /\ g_tareRaw = Persisted.g_tareRaw

\* The factor and the Preferences are as before a failed calibration.
C37_FailedCalibrationKeepsFactor ==
    /\ [][(calOp'.op = "doCalibration3lb" /\ calOp'.oled = "CAL FAILED") =>
             (g_calibration' = g_calibration /\ prefs' = prefs)]_vars
    /\ [](CalFailed => g_calibration = Persisted.g_calibration)

\* After a failed calibration the tare in use is not the persisted one.
C37_TareNotPersisted ==
    CalFailed /\ g_tareRaw # Persisted.g_tareRaw

----------------------------------------------------------------------------
(* C38: the calibration factor is never zero: from the default 1000 or a    *)
(* value saveCalibration has persisted, after any sequence of tare,         *)
(* calibration (successful or failed), save and load g_calibration # 0,     *)
(* because a calibration is accepted only when |delta| >= 100; so           *)
(* rawToPounds never takes its zero-calibration branch.                     *)

\* x == 0.0f is false
NotZero(x) == x[1] # 0 \/ x[2] = 0

C38_CalibrationNeverZero ==
    /\ NotZero(g_calibration)
    /\ g_calibration # RInt(0)
    /\ prefs.saved => NotZero(prefs.cal)
    /\ lbs.called => lbs.serial = <<>>

\* A calibration was saved, a later one failed, and a reading was converted.
C38_Witness ==
    /\ CalFailed
    /\ prefs.saved /\ prefs.cal = RInt(-2000)
    /\ g_calibration = RInt(-2000)
    /\ lbs.called /\ lbs.value # RInt(0) /\ lbs.serial = <<>>

----------------------------------------------------------------------------
(* The three users of millis() differences, one at a time as loop() and     *)
(* runTest call them: a homing, the polling of a button, or writeToRFID.    *)

InitClock == InitHome \/ InitButton \/ InitRfid

ClockHome == NextHome /\ btn = NoButton /\ rfid = NoRfid

ClockButton == NextButton /\ hm = NoHome /\ rfid = NoRfid

ClockRfid == NextRfid /\ btn = NoButton /\ hm = NoHome

NextClock == ClockHome \/ ClockButton \/ ClockRfid

SpecClock == InitClock /\ [][NextClock]_vars

----------------------------------------------------------------------------
(* C39: the elapsed-time checks stay correct across a wraparound of         *)
(* millis(): the unsigned difference (now - start) mod 2^32 that the        *)
(* debounce, long-press, homing-timeout and RFID wait and poll comparisons  *)
(* use is the time really elapsed since start was taken, also when the      *)
(* counter has wrapped to 0 in between, for elapsed times below one turn of *)
(* the counter.                                                             *)

\* The homing timeout: millis() - startTime, in both approaches.
HomingElapsedTrue ==
    hm.pc \in {"approach1", "approach2"} =>
        (hm.waited < ClockModulus => Elapsed(hm.now, hm.startTime) = hm.waited)

\* The debounce (now - b.lastChange) and the press length (now - b.downAt).
ButtonElapsedTrue ==
    (btn.pc = "polling" /\ btn.since < ClockModulus) =>
        /\ Elapsed(btn.now, btn.b.lastChange) = btn.since
        /\ btn.b.last = LOW => Elapsed(btn.now, btn.b.downAt) = btn.since

\* The attempt's timeout, the abort hold and the poll interval of
\* writeToRFID.  Before the first poll of an attempt lastPollTime is 0 and
\* the difference is the time since the counter last read 0.
RfidElapsedTrue ==
    /\ (rfid.pc \in {"poll", "hold", "gate"} /\ rfid.sinceAttempt < ClockModulus) =>
          Elapsed(rfid.now, rfid.attemptStartTime) = rfid.sinceAttempt
    /\ (rfid.pc = "hold" /\ rfid.sinceHold < ClockModulus) =>
          Elapsed(rfid.now, rfid.holdStart) = rfid.sinceHold
    /\ (rfid.pc = "gate" /\ rfid.polled /\ rfid.sincePoll < ClockModulus) =>
          Elapsed(rfid.now, rfid.lastPollTime) = rfid.sincePoll
    /\ (rfid.pc = "gate" /\ ~rfid.polled) =>
          Elapsed(rfid.now, rfid.lastPollTime) = rfid.now

\* What the comparisons decided is what the time really elapsed decides.
DecidedByTrueElapsed ==
    /\ (hm.pc = "returned" /\ hm.timedOut # "none") =>
          hm.waited > HomingTimeoutTicks(hm.fn)
    /\ hm.pc \in {"approach1", "approach2"} =>
          hm.waited <= HomingTimeoutTicks(hm.fn) + 1
    /\ (btn.pc = "polling" /\ btn.call.made /\ btn.call.accepted) =>
          btn.call.since > DEBOUNCE_MS
    /\ (btn.pc = "polling" /\ btn.call.made /\ btn.call.longPress) =>
          btn.since >= LONG_PRESS_MS
    /\ rfid.pc \in {"hold", "gate"} => rfid.sinceAttempt <= TAG_WAIT_TIMEOUT + AbortHold
    /\ rfid.aborted => rfid.sinceHold >= AbortHold

C39_HomingWitness ==
    /\ hm.pc = "returned" /\ hm.timedOut # "none"
    /\ hm.now < hm.startTime

C39_ButtonWitness ==
    /\ btn.pc = "polling" /\ btn.call.made /\ btn.call.longPress
    /\ btn.now < btn.b.downAt

----------------------------------------------------------------------------
(* avgWithinOneStdDev in the arithmetic of the code: the samples are floats *)
(* and every operation on doubles rounds its result to the nearest double,  *)
(* ties to even.  The model gives a double DoubleBits significant bits (53  *)
(* in the code) and takes samples that a float holds exactly.               *)

\* Significant bits of a double of the model.
DoubleBits == 7
\* Longest array passed to the strategy in SpecRound.
MaxRoundCount == 4

RHalf(x) == IF x[1] % 2 = 0 THEN <<x[1] \div 2, x[2]>> ELSE <<x[1], 2 * x[2]>>
RTwice(x) == IF x[2] % 2 = 0 THEN <<x[1], x[2] \div 2>> ELSE <<2 * x[1], x[2]>>

\* x * 2^j
RECURSIVE RScale(_, _)
RScale(x, j) ==
    IF j = 0 THEN x
    ELSE IF j > 0 THEN RScale(RTwice(x), j - 1)
    ELSE RScale(RHalf(x), j + 1)

\* For x > 0: the j with lo <= x * 2^(j + k) < 4 * lo, k counted up from 0
\* in steps of step, and x * 2^(j + k).
RECURSIVE ToMantissa(_, _, _, _)
ToMantissa(x, j, lo, step) ==
    IF x[1] \div x[2] >= (IF step = 1 THEN 2 ELSE 4) * lo
    THEN ToMantissa(RScale(x, -step), j - step, lo, step)
    ELSE IF x[1] \div x[2] < lo
    THEN ToMantissa(RScale(x, step), j + step, lo, step)
    ELSE [s |-> x, j |-> j]

\* num / den rounded to the nearest integer, ties to even.
HalfEven(num, den) ==
    LET q == num \div den
        r == num % den
    IN  IF 2 * r > den \/ (2 * r = den /\ q % 2 = 1) THEN q + 1 ELSE q

\* The double nearest to the finite value x.
RoundDouble(x) ==
    IF x[1] = 0 THEN RInt(0)
    ELSE LET t == ToMantissa(RAbs(x), 0, 2^(DoubleBits - 1), 1)
             m == HalfEven(t.s[1], t.s[2])
         IN  RScale(RInt(IF x[1] < 0 THEN -m ELSE m), -t.j)

\* sqrt(q) for a double q >= 0: the double nearest to the square root.
SqrtDouble(q) ==
    IF q[1] = 0 THEN RInt(0)
    ELSE LET t == ToMantissa(q, 0, 4^(DoubleBits - 1), 2)
             a == t.s[1] \div t.s[2]
             m == CHOOSE k \in 2^(DoubleBits - 1)..2^DoubleBits :
                     (2 * k - 1) * (2 * k - 1) <= 4 * a /\ 4 * a < (2 * k + 1) * (2 * k + 1)
         IN  RScale(RInt(m), -(t.j \div 2))

\* for (i = 0; i < k; i++) sum += term(i), each addition rounded.
RECURSIVE SumRounded(_, _)
SumRounded(terms, k) ==
    IF k = 0 THEN RInt(0)
    ELSE RoundDouble(RAdd(SumRounded(terms, k - 1), terms[k]))

\* avgWithinOneStdDev as the code computes it, with the locals it ends with.
avgWithinOneStdDevRounded(smp, count) ==
    IF count <= 0
    THEN [value |-> RInt(0), filteredCount |-> 0, mean |-> RInt(0),
          stddev |-> RInt(0), fallback |-> FALSE]
    ELSE
      LET sum == SumRounded(smp, count)
          mean == RoundDouble(RDiv(sum, RInt(count)))
          sq == [i \in 1..count |->
                   LET diff == RoundDouble(RSub(smp[i], mean))
                   IN  RoundDouble(RMul(diff, diff))] \o <<>>
          sqSum == SumRounded(sq, count)
          stddev == SqrtDouble(RoundDouble(RDiv(sqSum, RInt(count))))
          lo == RoundDouble(RSub(mean, stddev))
          hi == RoundDouble(RAdd(mean, stddev))
          kept == SelectSeq(SubSeq(smp, 1, count),
                            LAMBDA v : RLeq(lo, v) /\ RLeq(v, hi))
          filteredCount == Len(kept)
          filteredSum == SumRounded(kept, filteredCount)
      IN  [value |-> IF filteredCount > 0
                     THEN RoundDouble(RDiv(filteredSum, RInt(filteredCount)))
                     ELSE mean,
           filteredCount |-> filteredCount, mean |-> mean, stddev |-> stddev,
           fallback |-> filteredCount = 0]

\* Readings a float holds exactly.
RoundValues == {RInt(0), RInt(1), RInt(3), RInt(416)}

RoundInputs == UNION {[1..n -> RoundValues] : n \in 1..MaxRoundCount}

InitRound ==
    /\ samples \in RoundInputs
    /\ avgOut = NoOut
    /\ fwdSamples = <<>>
    /\ revSamples = <<>>
    /\ normalForceLb = RInt(0)
    /\ trimFraction = RInt(0)
    /\ avgFn = "none"
    /\ result = ZeroResult
    /\ serial = <<>>
    /\ pairs = <<>>
    /\ avgArgs = <<>>
    /\ avgLeft = <<>>
    /\ mallocLog = <<>>
    /\ freeLog = <<>>
    /\ pc = "idle"
    /\ ConvUnused
    /\ csv = <<>>
    /\ rr = NoRun
    /\ mv = NoMove
    /\ CtlUnused
    /\ DualUnused

CallAvgWithinOneStdDevRounded ==
    /\ pc = "idle"
    /\ avgOut' = avgWithinOneStdDevRounded(samples, Len(samples))
    /\ pc' = "done"
    /\ UNCHANGED <<fwdSamples, revSamples, normalForceLb, trimFraction, avgFn,
                   result, serial, pairs, avgArgs, avgLeft, mallocLog, freeLog,
                   samples, convVars, csv, rr, mv, ctlVars, dualVars>>

NextRound == CallAvgWithinOneStdDevRounded

SpecRound == InitRound /\ [][NextRound]_vars

----------------------------------------------------------------------------
(* C40: the within-one-standard-deviation filter never yields an empty set  *)
(* for a non-empty input: for every sequence of count >= 1 values at least  *)
(* one value v satisfies mean - sigma <= v <= mean + sigma, so              *)
(* filteredCount >= 1 and the fallback to the unfiltered mean is never      *)
(* taken.                                                                   *)

StdDevCalled == pc = "done" /\ Len(samples) >= 1

ExactMean == RDiv(SumRange(samples, 0, Len(samples)), RInt(Len(samples)))
ExactVariance == RDiv(SqSum(samples, ExactMean, Len(samples)), RInt(Len(samples)))
ExactKept == Filtered(samples, ExactMean, ExactVariance, Len(samples))

============================================================================
